---- MODULE Spec2Model ----
(***************************************************************************)
(* Block-processing core of the LBRY wallet server:                        *)
(*   lbry/wallet/server/block_processor.py  (Prefetcher, BlockProcessor)   *)
(*   lbry/wallet/server/mempool.py          (MemPool)                      *)
(*                                                                         *)
(* Five specifications share this module:                                  *)
(*   Spec          the chain layer: advance_block / flush / backup_block   *)
(*                 on the key-value store with its reversible op stack     *)
(*   SpecSched     the tasks, the state lock, the executors and shutdown   *)
(*   SpecSchedFair SpecSched with the fairness of the event loop           *)
(*   SpecMempool   SpecSched with the mempool refresh                      *)
(*   SpecClaim     the claimtrie engine: activation, takeover, effective   *)
(*                 amounts                                                 *)
(* Variables that a specification does not use stay at their initial value.*)
(***************************************************************************)
EXTENDS Integers, Sequences, FiniteSets, TLC

\* ------------------------------------------------------------------------
\* Bounds of the model and program constants
\* ------------------------------------------------------------------------

\* coin.REORG_LIMIT / env.reorg_limit, scaled down (200 on mainnet)
REORG_LIMIT == 2
\* highest block height the daemon reaches
MaxHeight == 4
\* cap on db.hist_flush_count, which advance_block and backup_block increment
MaxFlushCount == 6

None == "None"

Max(a, b) == IF a >= b THEN a ELSE b
Min(a, b) == IF a <= b THEN a ELSE b
Front(s) == SubSeq(s, 1, Len(s) - 1)
Last(s) == s[Len(s)]
Restrict(f, S) == [x \in S |-> f[x]]

VARIABLES
    \* ---- chain layer (BlockProcessor, LevelDB cursors, KV store) ----
    height,          \* BlockProcessor.height
    tip,             \* BlockProcessor.tip
    tx_count,        \* BlockProcessor.tx_count
    db,              \* in-memory cursors of self.db
    kv,              \* committed key-value store
    op_stack,        \* prefix_db._op_stack: staged, uncommitted operations
    staging,         \* per-block staging collections of the UTXO layer
    touched_hashXs,  \* BlockProcessor.touched_hashXs
    daemon_height,   \* daemon.cached_height()
    caught_up,       \* _caught_up_event.is_set()
    pc,              \* position of check_and_advance_blocks
    \* ---- history variables used to state the claims ----
    snap,            \* snap[h]: the state right before block h was applied
    saved,           \* saved[h]: flush of block h persisted an undo record
    run,             \* advances and backups of the current run
    \* ---- tasks, lock, executors (SpecSched) ----
    daemon_chain,    \* the daemon's best chain: the variants of its blocks
    pf,              \* Prefetcher: position of main_loop and its fields
    bp,              \* locals of _process_prefetched_blocks / check_and_advance_blocks
    mp,              \* MemPool: position of _refresh_hashes and its fields
    state_lock,      \* BlockProcessor.state_lock: its holder
    exec,            \* _chain_executor: the job of its single thread
    reader,          \* _sync_reader_executor: the job of its single thread
    top              \* fetch_and_process_blocks: position, DB handle, status server

schedVars == <<daemon_chain, pf, bp, mp, state_lock, exec, reader, top>>

chainVars == <<height, tip, tx_count, db, kv, op_stack, staging, touched_hashXs,
               daemon_height, caught_up, pc, snap, saved, run>>

\* ------------------------------------------------------------------------
\* Blocks handed over by the daemon.  A block is identified by the path of
\* variants from genesis, so that its hash determines its ancestry.
\* ------------------------------------------------------------------------

Variants == {1, 2, 3}
GENESIS_HASH == <<>>

header_hash(header) == header.hash
header_prevhash(header) == header.prev

\* the script of an output, as the claim layer decodes it: a payment, or one
\* of claim_name, update_claim and support_claim
\* the signing channel of a claim that has none
NoChannel == -1

\* (signing_channel_hash: the channel a signed claim names; signature: the
\* key the signature was made with; public_key: the key of a channel claim)
SignedScript(kind, name, claim_hash, signing_channel_hash, signature, public_key) ==
    [kind |-> kind, name |-> name, claim_hash |-> claim_hash,
     signing_channel_hash |-> signing_channel_hash, signature |-> signature,
     public_key |-> public_key]

\* the script of an unsigned claim that is not a channel
Script(kind, name, claim_hash) == SignedScript(kind, name, claim_hash, NoChannel, None, None)

PayScript == Script("pay", None, -1)

\* the coinbase transaction of the block with hash `path`
CoinbaseTx(path) ==
    [hash |-> <<path, 0>>, inputs |-> <<>>,
     outputs |-> <<[hashX |-> "a", value |-> 2, script |-> PayScript]>>]

\* a transaction spending the coinbase output of block `of`
SpendTx(path, of) ==
    [hash |-> <<path, 1>>,
     inputs |-> <<[prev_hash |-> <<of, 0>>, prev_idx |-> 0]>>,
     outputs |-> <<[hashX |-> "b", value |-> 1, script |-> PayScript],
                  [hashX |-> None, value |-> 1, script |-> PayScript]>>]

\* variant 1: coinbase only; 2: also spends its own coinbase output;
\* 3: also spends the coinbase output of the parent block
BlockTxs(path) ==
    CASE Last(path) = 1 -> <<CoinbaseTx(path)>>
      [] Last(path) = 2 -> <<CoinbaseTx(path), SpendTx(path, path)>>
      [] OTHER -> <<CoinbaseTx(path), SpendTx(path, Front(path))>>

Block(path) ==
    [header |-> [hash |-> path, prev |-> Front(path)],
     transactions |-> BlockTxs(path)]

\* the blocks the daemon can return as the successor of the block `parent`
\* (the daemon is trusted: it never spends an output twice)
NextBlocks(parent) ==
    {Block(Append(parent, v)) : v \in
        {w \in Variants : w = 3 => (Len(parent) >= 1 /\ Last(parent) # 2)}}

\* first four bytes of a transaction hash
Prefix4(tx_hash) == <<Len(tx_hash[1]) % 2, tx_hash[2]>>

\* ------------------------------------------------------------------------
\* ReversibleOpStack and the commit / rollback of PrefixDB
\* ------------------------------------------------------------------------

stage_put(ops, k, v) == Append(ops, [is_put |-> TRUE, key |-> k, value |-> v])

stage_delete(ops, k, v) == Append(ops, [is_put |-> FALSE, key |-> k, value |-> v])

\* the operations applied in their order: the last operation on a key
\* decides
ApplyOps(store, ops) ==
    LET staged == {ops[i].key : i \in 1..Len(ops)}
        last(k) == ops[CHOOSE i \in 1..Len(ops) :
                          /\ ops[i].key = k
                          /\ \A j \in (i + 1)..Len(ops) : ops[j].key # k]
        put == {k \in staged : last(k).is_put}
    IN [k \in (DOMAIN store \ staged) \cup put |->
           IF k \in put THEN last(k).value ELSE store[k]]

\* the inverse of an operation: a put becomes a delete, a delete a put
InvertOp(op) == [op EXCEPT !.is_put = ~op.is_put]

\* the undo buffer: the inverses, last staged first
get_undo_ops(ops) ==
    [i \in 1..Len(ops) |-> InvertOp(ops[Len(ops) + 1 - i])]

commit(store, ops, h) ==
    (<<"undo", h>> :> get_undo_ops(ops)) @@ ApplyOps(store, ops)

unsafe_commit(store, ops) == ApplyOps(store, ops)

rollback(store, h) ==
    LET applied == ApplyOps(store, store[<<"undo", h>>])
    IN Restrict(applied, DOMAIN applied \ {<<"undo", h>>})

\* ------------------------------------------------------------------------
\* LevelDB helpers
\* ------------------------------------------------------------------------

DbStateKey == <<"db_state">>

DbStateValue(d) ==
    [db_height |-> d.db_height, db_tx_count |-> d.db_tx_count, db_tip |-> d.db_tip,
     first_sync |-> d.first_sync, hist_flush_count |-> d.hist_flush_count,
     utxo_flush_count |-> d.utxo_flush_count, es_sync_height |-> d.es_sync_height]

\* db.write_db_state(): stage the replacement of the DB-state record
write_db_state(ops, store, d) ==
    LET removed == IF DbStateKey \in DOMAIN store
                   THEN stage_delete(ops, DbStateKey, store[DbStateKey])
                   ELSE ops
    IN stage_put(removed, DbStateKey, DbStateValue(d))

\* db.min_undo_height(max_height)
min_undo_height(max_height) == max_height - REORG_LIMIT + 1

\* db.get_tx_num(tx_hash); -1 when the transaction is unknown
get_tx_num(store, tx_hash) ==
    IF <<"tx_num", tx_hash>> \in DOMAIN store THEN store[<<"tx_num", tx_hash>>] ELSE -1

\* ------------------------------------------------------------------------
\* The UTXO layer of advance_block.  S is the state of one advance_block
\* call: the op stack, the staging collections and the local tx_count.
\* ------------------------------------------------------------------------

EmptyStaging ==
    [utxo_cache |-> <<>>, hashXs_by_tx |-> <<>>,
     pending_transaction_num_mapping |-> <<>>, pending_transactions |-> <<>>]

get_pending_tx_num(S, store, tx_hash) ==
    IF tx_hash \in DOMAIN S.pending_transaction_num_mapping
    THEN S.pending_transaction_num_mapping[tx_hash]
    ELSE get_tx_num(store, tx_hash)

add_utxo(S, tx_hash, tx_num, nout, txout) ==
    IF txout.hashX # None
    THEN [S EXCEPT
            !.touched_hashXs = @ \cup {txout.hashX},
            !.utxo_cache = (<<tx_hash, nout>> :> [hashX |-> txout.hashX, value |-> txout.value]) @@ @,
            !.ops = stage_put(
                        stage_put(@, <<"utxo", txout.hashX, tx_num, nout>>, txout.value),
                        <<"hashX_utxo", Prefix4(tx_hash), tx_num, nout>>, txout.hashX),
            !.ret = txout.hashX]
    ELSE [S EXCEPT !.ret = None]

spend_utxo(S, store, tx_hash, nout) ==
    LET cached == <<tx_hash, nout>> \in DOMAIN S.utxo_cache
        popped == [S EXCEPT !.utxo_cache =
                      Restrict(@, DOMAIN @ \ {<<tx_hash, nout>>})]
        txin_num == get_pending_tx_num(S, store, tx_hash)
        hkey == <<"hashX_utxo", Prefix4(tx_hash), txin_num, nout>>
    IN IF ~cached
       THEN IF hkey \notin DOMAIN store
            THEN [S EXCEPT !.ret = None]
            ELSE LET hashX == store[hkey]
                     ukey == <<"utxo", hashX, txin_num, nout>>
                 IN IF ukey \notin DOMAIN store
                    THEN [S EXCEPT !.error = "ChainError"]
                    ELSE [S EXCEPT
                            !.touched_hashXs = @ \cup {hashX},
                            !.ops = stage_delete(stage_delete(@, hkey, hashX),
                                                 ukey, store[ukey]),
                            !.ret = hashX]
       ELSE LET c == S.utxo_cache[<<tx_hash, nout>>]
            IN [popped EXCEPT
                  !.ops = stage_delete(stage_delete(@, hkey, c.hashX),
                                       <<"utxo", c.hashX, txin_num, nout>>, c.value),
                  !.touched_hashXs = @ \cup {c.hashX},
                  !.ret = c.hashX]

\* if hashX: if tx_count not in self.hashXs_by_tx[hashX]: append
NoteHistory(S, tx_num) ==
    IF S.ret = None THEN S
    ELSE LET old == IF S.ret \in DOMAIN S.hashXs_by_tx
                    THEN S.hashXs_by_tx[S.ret] ELSE <<>>
         IN IF \E i \in 1..Len(old) : old[i] = tx_num THEN S
            ELSE [S EXCEPT !.hashXs_by_tx = (S.ret :> Append(old, tx_num)) @@ @]

\* ------------------------------------------------------------------------
\* The claimtrie engine.  Python dicts keep their insertion order and the
\* engine iterates over them, so a dict is a sequence of <<key, value>>.
\* ------------------------------------------------------------------------

DictHas(d, k) == \E i \in 1..Len(d) : d[i][1] = k

DictGet(d, k) == d[CHOOSE i \in 1..Len(d) : d[i][1] = k][2]

DictGetOr(d, k, default) == IF DictHas(d, k) THEN DictGet(d, k) ELSE default

\* d[k] = v
DictSet(d, k, v) ==
    IF DictHas(d, k)
    THEN [i \in 1..Len(d) |-> IF d[i][1] = k THEN <<k, v>> ELSE d[i]]
    ELSE Append(d, <<k, v>>)

\* d.pop(k)
DictPop(d, k) == SelectSeq(d, LAMBDA e : e[1] # k)

DictKeys(d) == {d[i][1] : i \in 1..Len(d)}

\* d[k].append(v) of a defaultdict(list)
DictAppend(d, k, v) == DictSet(d, k, Append(DictGetOr(d, k, <<>>), v))

\* d[k] += n of a defaultdict(int)
DictAdd(d, k, n) == DictSet(d, k, DictGetOr(d, k, 0) + n)

RECURSIVE Sum(_)
Sum(s) == IF s = <<>> THEN 0 ELSE Head(s) + Sum(Tail(s))

SeqHas(s, x) == \E i \in 1..Len(s) : s[i] = x

\* list.remove(x)
SeqRemove(s, x) == SelectSeq(s, LAMBDA e : e # x)

\* the first key of the greatest value: max(d, key=lambda x: d[x])
ArgMax(d) ==
    d[CHOOSE i \in 1..Len(d) :
        /\ \A j \in 1..Len(d) : d[j][2] <= d[i][2]
        /\ \A j \in 1..(i - 1) : d[j][2] < d[i][2]][1]

\* lbry.wallet.server.db.prefixes
ACTIVATED_CLAIM_TXO_TYPE == 1
ACTIVATED_SUPPORT_TXO_TYPE == 2

\* coin.proportionalDelayFactor, scaled down (32 on mainnet)
proportionalDelayFactor == 2
\* coin.maxTakeoverDelay, scaled down (4032 on mainnet)
maxTakeoverDelay == 2
\* coin.nOriginalClaimExpirationTime, scaled down (262974 on mainnet)
nOriginalClaimExpirationTime == 4

\* coin.get_delay_for_name(blocks)
get_delay_for_name(blocks) == Min(blocks \div proportionalDelayFactor, maxTakeoverDelay)

\* coin.get_expiration_height(last_updated_height)
get_expiration_height(last_updated_height) ==
    last_updated_height + nOriginalClaimExpirationTime

\* hash160(tx_hash + pack('>I', nout))[::-1]: the claim hash of the output
\* nout of the transaction numbered tx_num; the order of the hashes is not
\* the order of the outputs
hash160(tx_num, nout) == ((2 * tx_num + nout) * 7) % 101

\* bisect_right(self.db.tx_counts, tx_num): the height of transaction tx_num
bisect_right(tx_counts, tx_num) ==
    Cardinality({i \in 1..Len(tx_counts) : tx_counts[i] <= tx_num})

\* ---- rows of the claim columns; reads return the committed rows, what the
\* ---- block has staged is held in the staging collections

\* the keys of column `col` in ascending order of the key parts from `from` on
Rows(store, col) == {k \in DOMAIN store : k[1] = col}

RECURSIVE KeyLess(_, _, _)
KeyLess(a, b, i) ==
    IF i > Len(a) THEN FALSE
    ELSE IF a[i] = b[i] THEN KeyLess(a, b, i + 1)
    ELSE a[i] < b[i]

RECURSIVE SortKeys(_, _)
SortKeys(keys, from) ==
    IF keys = {} THEN <<>>
    ELSE LET least == CHOOSE k \in keys : \A j \in keys : j = k \/ KeyLess(k, j, from)
         IN <<least>> \o SortKeys(keys \ {least}, from)

Reverse(s) == [i \in 1..Len(s) |-> s[Len(s) + 1 - i]]

has_claim_txo(store, claim_hash) == <<"claim_to_txo", claim_hash>> \in DOMAIN store

\* db.get_claim_txo(claim_hash), for a claim the DB holds
get_claim_txo(store, claim_hash) == store[<<"claim_to_txo", claim_hash>>]

\* db.get_claim_from_txo(tx_num, position), for a claim output the DB holds
get_claim_from_txo(store, tx_num, position) == store[<<"txo_to_claim", tx_num, position>>]

\* PrefixRow.get_pending: the last staged operation on the key decides,
\* else the committed row
has_pending(ops, store, key) ==
    LET staged == {i \in 1..Len(ops) : ops[i].key = key}
    IN IF staged = {} THEN key \in DOMAIN store
       ELSE ops[CHOOSE i \in staged : \A j \in staged : j <= i].is_put

\* db.get_cached_claim_exists(tx_num, position): the claim cache follows
\* what the block stages (cache_all_claim_txos, or get_pending)
get_cached_claim_exists(ops, store, tx_num, position) ==
    has_pending(ops, store, <<"txo_to_claim", tx_num, position>>)

\* db.get_cached_claim_txo(claim_hash): the (tx_num, position) the claim
\* cache holds for the claim, <<>> if none
get_cached_claim_txo(ops, store, claim_hash) ==
    LET key == <<"claim_to_txo", claim_hash>>
        staged == {i \in 1..Len(ops) : ops[i].key = key}
        last == ops[CHOOSE i \in staged : \A j \in staged : j <= i]
    IN IF staged = {}
       THEN IF key \in DOMAIN store
            THEN <<store[key].tx_num, store[key].position>> ELSE <<>>
       ELSE IF last.is_put THEN <<last.value.tx_num, last.value.position>> ELSE <<>>

\* db.get_activation(tx_num, position, is_support): -1 for a txo without one
get_activation(store, txo_type, tx_num, position) ==
    IF <<"activated", txo_type, tx_num, position>> \in DOMAIN store
    THEN store[<<"activated", txo_type, tx_num, position>>].height
    ELSE -1

\* db.get_supported_claim_from_txo(tx_num, position) finds a support
is_support_txo(store, tx_num, position) ==
    /\ <<"support_to_claim", tx_num, position>> \in DOMAIN store
    /\ <<"claim_to_support", store[<<"support_to_claim", tx_num, position>>],
         tx_num, position>> \in DOMAIN store

has_controlling_claim(store, name) == <<"claim_takeover", name>> \in DOMAIN store

\* db.get_controlling_claim(name), for a name that has one
get_controlling_claim(store, name) == store[<<"claim_takeover", name>>]

\* db.get_claim_txos_for_name(name): claim hash -> (tx_num, position), in
\* the order of the short ids
get_claim_txos_for_name(store, name) ==
    LET keys == SortKeys({k \in Rows(store, "claim_short_id") : k[2] = name}, 3)
    IN [i \in 1..Len(keys) |->
           <<get_claim_from_txo(store, store[keys[i]][1], store[keys[i]][2]).claim_hash,
             store[keys[i]]>>]

\* db.get_claims_for_name(name)
get_claims_for_name(store, name) ==
    LET txos == get_claim_txos_for_name(store, name)
    IN [i \in 1..Len(txos) |-> txos[i][1]]

\* db.get_activated_at_height(height): (claim_hash, name) -> the keys of
\* the pending activations of that height
RECURSIVE GroupActivations(_, _, _)
GroupActivations(store, keys, d) ==
    IF keys = <<>> THEN d
    ELSE LET k == Head(keys)
             v == store[k]
         IN GroupActivations(store, Tail(keys),
                DictAppend(d, <<v.claim_hash, v.name>>,
                           [height |-> k[2], txo_type |-> k[3],
                            tx_num |-> k[4], position |-> k[5]]))

get_activated_at_height(store, h) ==
    GroupActivations(store,
        SortKeys({k \in Rows(store, "pending_activation") : k[2] = h}, 3), <<>>)

\* db.get_future_activated(height): (claim_hash, name) -> the last pending
\* activation at a height in [height + 1, height + 1 + maxTakeoverDelay]
RECURSIVE FirstPerValue(_, _, _)
FirstPerValue(store, keys, d) ==
    IF keys = <<>> THEN d
    ELSE LET k == Head(keys)
             v == store[k]
         IN FirstPerValue(store, Tail(keys),
                IF DictHas(d, <<v.claim_hash, v.name>>) THEN d
                ELSE Append(d, <<<<v.claim_hash, v.name>>,
                                 [height |-> k[2], txo_type |-> k[3],
                                  tx_num |-> k[4], position |-> k[5]]>>))

get_future_activated(store, h) ==
    FirstPerValue(store,
        Reverse(SortKeys({k \in Rows(store, "pending_activation") :
                             k[2] >= h + 1 /\ k[2] <= h + 1 + maxTakeoverDelay}, 2)),
        <<>>)

\* db._get_active_amount(claim_hash, txo_type, height): the amounts
\* activated below `height`
RECURSIVE SumRows(_, _)
SumRows(store, keys) ==
    IF keys = {} THEN 0
    ELSE LET k == CHOOSE x \in keys : TRUE
         IN store[k] + SumRows(store, keys \ {k})

_get_active_amount(store, claim_hash, txo_type, h) ==
    SumRows(store, {k \in Rows(store, "active_amount") :
                       k[2] = claim_hash /\ k[3] = txo_type /\ k[4] < h})

\* db.get_active_amount_as_of_height(claim_hash, height): the amount of the
\* last claim output activated below `height`, 0 if none
get_active_amount_as_of_height(store, claim_hash, h) ==
    LET keys == SortKeys({k \in Rows(store, "active_amount") :
                             /\ k[2] = claim_hash
                             /\ k[3] = ACTIVATED_CLAIM_TXO_TYPE
                             /\ k[4] < h}, 4)
    IN IF keys = <<>> THEN 0 ELSE store[Last(keys)]

\* the effective_amount column is ordered by descending amount
has_url_effective_amount(store, name, claim_hash) ==
    \E k \in Rows(store, "effective_amount") : k[2] = name /\ store[k] = claim_hash

\* db.get_url_effective_amount(name, claim_hash): the first key of the
\* column under `name` whose row is the claim
get_url_effective_amount(store, name, claim_hash) ==
    LET keys == {k \in Rows(store, "effective_amount") :
                    k[2] = name /\ store[k] = claim_hash}
        first == CHOOSE k \in keys : \A j \in keys :
                    j = k \/ k[3] > j[3] \/ (k[3] = j[3] /\ KeyLess(k, j, 4))
    IN [effective_amount |-> first[3], tx_num |-> first[4], position |-> first[5]]

\* db.get_expired_by_height(height): claim hash -> (tx_num, position, name,
\* txi), from the claim_expiration rows of that height
get_expired_by_height(store, h) ==
    LET keys == SortKeys({k \in Rows(store, "claim_expiration") : k[2] = h}, 3)
    IN [i \in 1..Len(keys) |->
           <<store[keys[i]].claim_hash,
             [tx_num |-> keys[i][3], position |-> keys[i][4],
              name |-> store[keys[i]].name,
              txi |-> [prev_hash |-> store[<<"tx_hash", keys[i][3]>>],
                       prev_idx |-> keys[i][4]]]>>]

\* ---- staging of claims and supports (S: the state of one advance_block
\* ---- call, d: the cursors of self.db, h: the height of the new block)

\* StagedClaimtrieItem (name stands for name and normalized_name)
StagedClaimtrieItem(name, claim_hash, amount, expiration_height, tx_num, position, root_tx_num, root_position, channel_signature_is_valid, signing_hash) ==
    [name |-> name, claim_hash |-> claim_hash, amount |-> amount,
     expiration_height |-> expiration_height, tx_num |-> tx_num, position |-> position,
     root_tx_num |-> root_tx_num, root_position |-> root_position,
     channel_signature_is_valid |-> channel_signature_is_valid,
     signing_hash |-> signing_hash]

\* StagedClaimtrieItem.is_update
is_update(item) ==
    <<item.tx_num, item.position>> # <<item.root_tx_num, item.root_position>>

\* StagedClaimtrieItem.invalidate_signature
invalidate_signature(item) ==
    [item EXCEPT !.channel_signature_is_valid = FALSE, !.signing_hash = NoChannel]

\* the value of a claim_to_txo row
ClaimToTXO(pending, channel_signature_is_valid) ==
    [tx_num |-> pending.tx_num, position |-> pending.position,
     root_tx_num |-> pending.root_tx_num, root_position |-> pending.root_position,
     amount |-> pending.amount, channel_signature_is_valid |-> channel_signature_is_valid,
     name |-> pending.name]

ClaimToTXOValue(pending) == ClaimToTXO(pending, pending.channel_signature_is_valid)

\* the rows of a claim output but for the rows of its channel
ClaimUtxoOps(ops, pending, is_put) ==
    LET stage(o, k, v) == IF is_put THEN stage_put(o, k, v) ELSE stage_delete(o, k, v)
    IN stage(stage(stage(stage(ops,
        <<"claim_to_txo", pending.claim_hash>>, ClaimToTXOValue(pending)),
        <<"txo_to_claim", pending.tx_num, pending.position>>,
            [claim_hash |-> pending.claim_hash, name |-> pending.name]),
        <<"claim_expiration", pending.expiration_height, pending.tx_num, pending.position>>,
            [claim_hash |-> pending.claim_hash, name |-> pending.name]),
        <<"claim_short_id", pending.name, pending.claim_hash,
          pending.root_tx_num, pending.root_position>>,
            <<pending.tx_num, pending.position>>)

get_add_claim_utxo_ops(ops, pending) ==
    IF pending.signing_hash # NoChannel /\ pending.channel_signature_is_valid
    THEN stage_put(stage_put(ClaimUtxoOps(ops, pending, TRUE),
             <<"claim_to_channel", pending.claim_hash, pending.tx_num, pending.position>>,
                 pending.signing_hash),
             <<"channel_to_claim", pending.signing_hash, pending.name,
               pending.tx_num, pending.position>>,
                 pending.claim_hash)
    ELSE ClaimUtxoOps(ops, pending, TRUE)

\* get_remove_claim_utxo_ops without the delete of the txo_to_claim row
RemoveClaimKeepTxoRow(ops, pending) ==
    LET removed == stage_delete(stage_delete(stage_delete(ops,
            <<"claim_to_txo", pending.claim_hash>>, ClaimToTXOValue(pending)),
            <<"claim_expiration", pending.expiration_height, pending.tx_num, pending.position>>,
                [claim_hash |-> pending.claim_hash, name |-> pending.name]),
            <<"claim_short_id", pending.name, pending.claim_hash,
              pending.root_tx_num, pending.root_position>>,
                <<pending.tx_num, pending.position>>)
    IN IF pending.signing_hash # NoChannel /\ pending.channel_signature_is_valid
       THEN stage_delete(stage_delete(removed,
                <<"claim_to_channel", pending.claim_hash, pending.tx_num, pending.position>>,
                    pending.signing_hash),
                <<"channel_to_claim", pending.signing_hash, pending.name,
                  pending.tx_num, pending.position>>,
                    pending.claim_hash)
       ELSE removed

get_remove_claim_utxo_ops(ops, pending) ==
    IF pending.signing_hash # NoChannel /\ pending.channel_signature_is_valid
    THEN stage_delete(stage_delete(ClaimUtxoOps(ops, pending, FALSE),
             <<"claim_to_channel", pending.claim_hash, pending.tx_num, pending.position>>,
                 pending.signing_hash),
             <<"channel_to_claim", pending.signing_hash, pending.name,
               pending.tx_num, pending.position>>,
                 pending.claim_hash)
    ELSE ClaimUtxoOps(ops, pending, FALSE)

get_activate_ops(ops, txo_type, claim_hash, tx_num, position, activation_height, name, amount) ==
    stage_put(stage_put(stage_put(ops,
        <<"activated", txo_type, tx_num, position>>,
            [height |-> activation_height, claim_hash |-> claim_hash, name |-> name]),
        <<"pending_activation", activation_height, txo_type, tx_num, position>>,
            [claim_hash |-> claim_hash, name |-> name]),
        <<"active_amount", claim_hash, txo_type, activation_height, tx_num, position>>,
            amount)

get_remove_activate_ops(ops, txo_type, claim_hash, tx_num, position, activation_height, name, amount) ==
    stage_delete(stage_delete(stage_delete(ops,
        <<"activated", txo_type, tx_num, position>>,
            [height |-> activation_height, claim_hash |-> claim_hash, name |-> name]),
        <<"pending_activation", activation_height, txo_type, tx_num, position>>,
            [claim_hash |-> claim_hash, name |-> name]),
        <<"active_amount", claim_hash, txo_type, activation_height, tx_num, position>>,
            amount)

\* db.get_channel_for_claim(claim_hash, tx_num, position); NoChannel if the
\* claim has no claim_to_channel row
get_channel_for_claim(store, claim_hash, tx_num, position) ==
    IF <<"claim_to_channel", claim_hash, tx_num, position>> \in DOMAIN store
    THEN store[<<"claim_to_channel", claim_hash, tx_num, position>>]
    ELSE NoChannel

_make_pending_claim_txo(S, store, d, claim_hash) ==
    LET claim == get_claim_txo(store, claim_hash)
    IN StagedClaimtrieItem(claim.name, claim_hash, claim.amount,
           get_expiration_height(bisect_right(d.tx_counts, claim.tx_num)),
           claim.tx_num, claim.position, claim.root_tx_num, claim.root_position,
           claim.channel_signature_is_valid,
           IF claim_hash \in S.doesnt_have_valid_signature THEN NoChannel
           ELSE get_channel_for_claim(store, claim_hash, claim.tx_num, claim.position))

\* _get_pending_claim_name(claim_hash); None for a claim nobody knows
_get_pending_claim_name(S, store, claim_hash) ==
    IF DictHas(S.claim_hash_to_txo, claim_hash)
    THEN DictGet(S.txo_to_claim, DictGet(S.claim_hash_to_txo, claim_hash)).name
    ELSE IF has_claim_txo(store, claim_hash)
         THEN get_claim_txo(store, claim_hash).name
         ELSE None

\* _spend_claim_txo from `spent` on
SpendClaim(S, spent) ==
    [S EXCEPT
        !.pending_channel_counts =
            IF /\ spent.signing_hash # NoChannel
               /\ spent.channel_signature_is_valid
               /\ ~DictHas(S.abandoned_claims, spent.signing_hash)
            THEN DictAdd(@, spent.signing_hash, -1) ELSE @,
        !.spent_claims = DictSet(@, spent.claim_hash,
                                 <<spent.tx_num, spent.position, spent.name>>),
        !.ops = get_remove_claim_utxo_ops(@, spent),
        !.spent = TRUE]

_spend_claim_txo(S, store, d, txin, txin_num) ==
    IF DictHas(S.txo_to_claim, <<txin_num, txin.prev_idx>>)
    THEN SpendClaim(S, DictGet(S.txo_to_claim, <<txin_num, txin.prev_idx>>))
    ELSE IF ~get_cached_claim_exists(S.ops, store, txin_num, txin.prev_idx)
         THEN [S EXCEPT !.spent = FALSE]
         ELSE SpendClaim(S, _make_pending_claim_txo(S, store, d,
                  get_claim_from_txo(store, txin_num, txin.prev_idx).claim_hash))

\* the end of _spend_support_txo: the rows of the support are deleted
SpendSupport(S, spent_support, txo, support_amount) ==
    [S EXCEPT
        !.ops = stage_delete(stage_delete(@,
                    <<"claim_to_support", spent_support, txo[1], txo[2]>>, support_amount),
                    <<"support_to_claim", txo[1], txo[2]>>, spent_support),
        !.pending_support_amount_change = DictAdd(@, spent_support, 0 - support_amount)]

\* _spend_support_txo for a support the DB holds
SpendDbSupport(S, h, spent_support, txo, support_amount, supported_name, activation) ==
    SpendSupport(
        [S EXCEPT
            !.removed_support_txos_by_name_by_claim =
                IF supported_name # None
                THEN DictAppend(@, <<supported_name, spent_support>>, txo) ELSE @,
            !.removed_active_support_amount_by_claim =
                IF 0 < activation /\ activation < h
                THEN DictAppend(@, spent_support, support_amount) ELSE @,
            !.ops =
                IF supported_name # None /\ activation > 0
                THEN get_remove_activate_ops(@, ACTIVATED_SUPPORT_TXO_TYPE, spent_support,
                         txo[1], txo[2], activation, supported_name, support_amount)
                ELSE @],
        spent_support, txo, support_amount)

_spend_support_txo(S, store, h, txo) ==
    IF DictHas(S.support_txo_to_claim, txo)
    THEN LET spent_support == DictGet(S.support_txo_to_claim, txo)[1]
             support_amount == DictGet(S.support_txo_to_claim, txo)[2]
         IN SpendSupport(
                [S EXCEPT
                    !.support_txo_to_claim = DictPop(@, txo),
                    !.support_txos_by_claim =
                        DictSet(@, spent_support, SeqRemove(DictGet(@, spent_support), txo)),
                    !.removed_support_txos_by_name_by_claim =
                        DictAppend(@, <<_get_pending_claim_name(S, store, spent_support),
                                        spent_support>>, txo)],
                spent_support, txo, support_amount)
    ELSE IF ~is_support_txo(store, txo[1], txo[2]) THEN S
    ELSE SpendDbSupport(S, h, store[<<"support_to_claim", txo[1], txo[2]>>], txo,
             store[<<"claim_to_support", store[<<"support_to_claim", txo[1], txo[2]>>],
                     txo[1], txo[2]>>],
             _get_pending_claim_name(S, store, store[<<"support_to_claim", txo[1], txo[2]>>]),
             get_activation(store, ACTIVATED_SUPPORT_TXO_TYPE, txo[1], txo[2]))

_spend_claim_or_support_txo(S, store, d, h, txin) ==
    LET txin_num == get_pending_tx_num(S, store, txin.prev_hash)
        claim == _spend_claim_txo(S, store, d, txin, txin_num)
    IN IF claim.spent THEN claim
       ELSE _spend_support_txo(S, store, h, <<txin_num, txin.prev_idx>>)

\* the end of _add_claim_or_update: the pending claim is staged
AddPending(S, pending) ==
    [S EXCEPT
        !.txo_to_claim = DictSet(@, <<pending.tx_num, pending.position>>, pending),
        !.claim_hash_to_txo = DictSet(@, pending.claim_hash,
                                      <<pending.tx_num, pending.position>>),
        !.ops = get_add_claim_utxo_ops(@, pending)]

\* an update that takes its own output as the root of the claim
AddUpdateOwnRoot(S, store, d, h, txo, tx_num, nout, claim_hash, prev) ==
    IF DictHas(S.txo_to_claim, prev)
    THEN LET previous_claim == DictGet(S.txo_to_claim, prev)
         IN AddPending(
                [S EXCEPT
                    !.spent_claims = DictPop(@, claim_hash),
                    !.txo_to_claim = DictPop(@, prev),
                    !.claim_hash_to_txo = DictPop(@, claim_hash),
                    !.updated_claims = @ \cup {claim_hash}],
                StagedClaimtrieItem(txo.script.name, claim_hash, txo.value,
                    get_expiration_height(h), tx_num, nout,
                    tx_num, nout,
                    S.channel_signature_is_valid, txo.script.signing_channel_hash))
    ELSE LET previous_claim == _make_pending_claim_txo(S, store, d, claim_hash)
         IN AddPending(
                [S EXCEPT
                    !.spent_claims = DictPop(@, claim_hash),
                    !.ops = get_remove_activate_ops(@, ACTIVATED_CLAIM_TXO_TYPE, claim_hash,
                                prev[1], prev[2],
                                get_activation(store, ACTIVATED_CLAIM_TXO_TYPE, prev[1], prev[2]),
                                txo.script.name, previous_claim.amount),
                    !.updated_claims = @ \cup {claim_hash}],
                StagedClaimtrieItem(previous_claim.name, claim_hash, txo.value,
                    get_expiration_height(h), tx_num, nout,
                    tx_num, nout,
                    S.channel_signature_is_valid, txo.script.signing_channel_hash))

\* _add_claim_or_update for an update_claim output whose claim this
\* transaction has spent under the same name
AddUpdate(S, store, d, h, txo, tx_num, nout, claim_hash, prev) ==
    IF DictHas(S.txo_to_claim, prev)
    THEN LET previous_claim == DictGet(S.txo_to_claim, prev)
         IN AddPending(
                [S EXCEPT
                    !.spent_claims = DictPop(@, claim_hash),
                    !.txo_to_claim = DictPop(@, prev),
                    !.claim_hash_to_txo = DictPop(@, claim_hash),
                    !.updated_claims = @ \cup {claim_hash}],
                StagedClaimtrieItem(txo.script.name, claim_hash, txo.value,
                    get_expiration_height(h), tx_num, nout,
                    previous_claim.root_tx_num, previous_claim.root_position,
                    S.channel_signature_is_valid, txo.script.signing_channel_hash))
    ELSE LET previous_claim == _make_pending_claim_txo(S, store, d, claim_hash)
         IN AddPending(
                [S EXCEPT
                    !.spent_claims = DictPop(@, claim_hash),
                    !.ops = get_remove_activate_ops(@, ACTIVATED_CLAIM_TXO_TYPE, claim_hash,
                                prev[1], prev[2],
                                get_activation(store, ACTIVATED_CLAIM_TXO_TYPE, prev[1], prev[2]),
                                txo.script.name, previous_claim.amount),
                    !.updated_claims = @ \cup {claim_hash}],
                StagedClaimtrieItem(previous_claim.name, claim_hash, txo.value,
                    get_expiration_height(h), tx_num, nout,
                    previous_claim.root_tx_num, previous_claim.root_position,
                    S.channel_signature_is_valid, txo.script.signing_channel_hash))

\* Output.is_signature_valid(signature, digest, public_key_bytes)
is_signature_valid(signature, public_key) == signature = public_key

\* the public key of the channel the claim names: of the output the DB holds
\* for the channel, else of a channel of this block; None if there is none
ChannelPubKey(S, store, signing_channel_hash) ==
    IF has_claim_txo(store, signing_channel_hash)
    THEN LET signing_channel == get_claim_txo(store, signing_channel_hash)
             raw_channel_tx == store[<<"tx", store[<<"tx_hash", signing_channel.tx_num>>]>>]
         IN raw_channel_tx.outputs[signing_channel.position + 1].script.public_key
    ELSE DictGetOr(S.pending_channels, signing_channel_hash, None)

\* the start of _add_claim_or_update: pending_channels, the check of the
\* signature, doesnt_have_valid_signature, pending_channel_counts and
\* claim_channels
ValidateSignature(S, store, txo, claim_hash) ==
    LET signing_channel_hash == txo.script.signing_channel_hash
        channels == IF txo.script.public_key # None
                    THEN DictSet(S.pending_channels, claim_hash, txo.script.public_key)
                    ELSE S.pending_channels
        channel_pub_key_bytes ==
            IF signing_channel_hash = NoChannel THEN None
            ELSE ChannelPubKey([S EXCEPT !.pending_channels = channels], store,
                               signing_channel_hash)
        channel_signature_is_valid ==
            /\ channel_pub_key_bytes # None
            /\ is_signature_valid(txo.script.signature, channel_pub_key_bytes)
    IN [S EXCEPT
           !.pending_channels = channels,
           !.channel_signature_is_valid = channel_signature_is_valid,
           !.doesnt_have_valid_signature =
               IF channel_signature_is_valid THEN @ \ {claim_hash}
               ELSE @ \cup {claim_hash},
           !.pending_channel_counts =
               IF channel_signature_is_valid
               THEN DictAdd(@, signing_channel_hash, 1) ELSE @,
           !.claim_channels =
               IF channel_signature_is_valid
               THEN DictSet(@, claim_hash, signing_channel_hash) ELSE @]

\* _add_claim_or_update once the signature is checked
AddClaimOrUpdate(S, store, d, h, txo, tx_num, nout) ==
    IF txo.script.kind = "claim_name"
    THEN AddPending(S,
             StagedClaimtrieItem(txo.script.name, hash160(tx_num, nout), txo.value,
                 get_expiration_height(h), tx_num, nout, tx_num, nout,
                 S.channel_signature_is_valid, txo.script.signing_channel_hash))
    ELSE IF ~DictHas(S.spent_claims, txo.script.claim_hash) THEN S
    ELSE IF txo.script.name # DictGet(S.spent_claims, txo.script.claim_hash)[3] THEN S
    ELSE AddUpdate(S, store, d, h, txo, tx_num, nout, txo.script.claim_hash,
             <<DictGet(S.spent_claims, txo.script.claim_hash)[1],
               DictGet(S.spent_claims, txo.script.claim_hash)[2]>>)

_add_claim_or_update(S, store, d, h, txo, tx_num, nout) ==
    AddClaimOrUpdate(
        ValidateSignature(S, store, txo,
            IF txo.script.kind = "claim_name" THEN hash160(tx_num, nout)
            ELSE txo.script.claim_hash),
        store, d, h, txo, tx_num, nout)

_add_support(S, txo, tx_num, nout) ==
    [S EXCEPT
        !.support_txos_by_claim = DictAppend(@, txo.script.claim_hash, <<tx_num, nout>>),
        !.support_txo_to_claim = DictSet(@, <<tx_num, nout>>,
                                         <<txo.script.claim_hash, txo.value>>),
        !.ops = stage_put(stage_put(@,
                    <<"claim_to_support", txo.script.claim_hash, tx_num, nout>>, txo.value),
                    <<"support_to_claim", tx_num, nout>>, txo.script.claim_hash),
        !.pending_support_amount_change = DictAdd(@, txo.script.claim_hash, txo.value)]

_add_claim_or_support(S, store, d, h, txo, tx_num, nout) ==
    IF txo.script.kind \in {"claim_name", "update_claim"}
    THEN _add_claim_or_update(S, store, d, h, txo, tx_num, nout)
    ELSE IF txo.script.kind = "support_claim"
         THEN _add_support(S, txo, tx_num, nout)
         ELSE S

\* for support_txo_to_clear in self.support_txos_by_claim[claim_hash]:
\* self.support_txo_to_claim.pop(support_txo_to_clear)
RECURSIVE PopAll(_, _)
PopAll(dict, keys) ==
    IF keys = <<>> THEN dict ELSE PopAll(DictPop(dict, Head(keys)), Tail(keys))

\* the names that start with '@'
ChannelNames == {"@c"}

\* normalized_name.startswith('@')
IsChannelName(name) == name \in ChannelNames

_get_invalidate_signature_ops(ops, pending) ==
    IF pending.signing_hash = NoChannel THEN ops
    ELSE LET unlinked == stage_delete(ops,
                 <<"claim_to_channel", pending.claim_hash, pending.tx_num, pending.position>>,
                 pending.signing_hash)
         IN IF ~pending.channel_signature_is_valid THEN unlinked
            ELSE stage_put(stage_delete(stage_delete(unlinked,
                     <<"channel_to_claim", pending.signing_hash, pending.name,
                       pending.tx_num, pending.position>>,
                         pending.claim_hash),
                     <<"claim_to_txo", pending.claim_hash>>, ClaimToTXOValue(pending)),
                     <<"claim_to_txo", pending.claim_hash>>, ClaimToTXO(pending, FALSE))

\* the end of both loops of _invalidate_channel_signatures
SignatureChanged(S, claim_hash, claim) ==
    [S EXCEPT
        !.signatures_changed = @ \cup {claim.claim_hash},
        !.pending_channel_counts = DictAdd(@, claim_hash, -1),
        !.ops = _get_invalidate_signature_ops(@, claim)]

\* one row of the first loop of _invalidate_channel_signatures
InvalidateSigned(S, store, d, claim_hash, signed_claim_hash) ==
    IF \/ DictHas(S.abandoned_claims, signed_claim_hash)
       \/ signed_claim_hash \in S.expired_claim_hashes
    THEN S
    ELSE IF signed_claim_hash \in S.doesnt_have_valid_signature THEN S
    ELSE IF /\ DictHas(S.claim_channels, signed_claim_hash)
            /\ signed_claim_hash # DictGet(S.claim_channels, signed_claim_hash)
         THEN S
    ELSE IF DictHas(S.claim_hash_to_txo, signed_claim_hash)
         THEN LET signed_claim_txo == DictGet(S.claim_hash_to_txo, signed_claim_hash)
                  claim == DictGet(S.txo_to_claim, signed_claim_txo)
              IN IF claim.signing_hash # claim_hash THEN S
                 ELSE SignatureChanged(
                          [S EXCEPT !.txo_to_claim =
                               DictSet(@, signed_claim_txo, invalidate_signature(claim))],
                          claim_hash, claim)
         ELSE SignatureChanged(S, claim_hash,
                  _make_pending_claim_txo(S, store, d, signed_claim_hash))

\* for (signed_claim_hash, ) in self.db.prefix_db.channel_to_claim.iterate(
\* prefix=(claim_hash, ))
RECURSIVE InvalidateDbSigned(_, _, _, _, _)
InvalidateDbSigned(S, store, d, claim_hash, keys) ==
    IF keys = <<>> THEN S
    ELSE InvalidateDbSigned(
            InvalidateSigned(S, store, d, claim_hash, store[Head(keys)]),
            store, d, claim_hash, Tail(keys))

\* for staged in list(self.txo_to_claim.values())
RECURSIVE InvalidateStaged(_, _, _)
InvalidateStaged(S, claim_hash, items) ==
    IF items = <<>> THEN S
    ELSE LET staged == Head(items)[2]
         IN InvalidateStaged(
                IF /\ staged.signing_hash = claim_hash
                   /\ staged.claim_hash \notin S.doesnt_have_valid_signature
                THEN [S EXCEPT
                        !.ops = _get_invalidate_signature_ops(@, staged),
                        !.txo_to_claim =
                            DictSet(@, DictGet(S.claim_hash_to_txo, staged.claim_hash),
                                    invalidate_signature(staged)),
                        !.signatures_changed = @ \cup {staged.claim_hash},
                        !.pending_channel_counts = DictAdd(@, claim_hash, -1)]
                ELSE S,
                claim_hash, Tail(items))

_invalidate_channel_signatures(S, store, d, claim_hash) ==
    LET db_signed == InvalidateDbSigned(S, store, d, claim_hash,
                         SortKeys({k \in Rows(store, "channel_to_claim") :
                                      k[2] = claim_hash}, 3))
    IN InvalidateStaged(db_signed, claim_hash, db_signed.txo_to_claim)

\* _abandon_claim from the staged item on
Abandon(S, claim_hash, staged) ==
    [S EXCEPT
        !.abandoned_claims = DictSet(@, claim_hash, staged),
        !.support_txo_to_claim =
            PopAll(@, DictGetOr(S.support_txos_by_claim, claim_hash, <<>>)),
        !.support_txos_by_claim = DictPop(@, claim_hash)]

\* _abandon_claim up to the test of the name
AbandonClaim(S, store, d, h, claim_hash, tx_num, nout, normalized_name) ==
    IF DictHas(S.txo_to_claim, <<tx_num, nout>>)
    THEN LET pending == DictGet(S.txo_to_claim, <<tx_num, nout>>)
         IN Abandon(
                [S EXCEPT
                    !.txo_to_claim = DictPop(@, <<tx_num, nout>>),
                    !.claim_hash_to_txo = DictPop(@, claim_hash),
                    !.abandoned_claims = DictSet(@, pending.claim_hash, pending)],
                claim_hash,
                StagedClaimtrieItem(normalized_name, claim_hash, pending.amount,
                    get_expiration_height(h - 1), tx_num, nout,
                    pending.root_tx_num, pending.root_position,
                    pending.channel_signature_is_valid, pending.signing_hash))
    ELSE LET v == get_claim_txo(store, claim_hash)
         IN Abandon(S, claim_hash,
                StagedClaimtrieItem(normalized_name, claim_hash, v.amount,
                    get_expiration_height(bisect_right(d.tx_counts, tx_num)), tx_num, nout,
                    v.root_tx_num, v.root_position,
                    v.channel_signature_is_valid,
                    get_channel_for_claim(store, claim_hash, tx_num, nout)))

_abandon_claim(S, store, d, h, claim_hash, tx_num, nout, normalized_name) ==
    LET abandoned == AbandonClaim(S, store, d, h, claim_hash, tx_num, nout, normalized_name)
    IN IF IsChannelName(normalized_name)
       THEN _invalidate_channel_signatures(abandoned, store, d, claim_hash)
       ELSE abandoned

\* for abandoned_claim_hash, (tx_num, nout, normalized_name) in
\* spent_claims.items(): self._abandon_claim(...); with times = 2 a claim
\* that is not a channel is abandoned a second time
RECURSIVE AbandonSpent(_, _, _, _, _, _)
AbandonSpent(S, store, d, h, spent_claims, times) ==
    IF spent_claims = <<>> THEN S
    ELSE LET c == Head(spent_claims)
             once == _abandon_claim(S, store, d, h, c[1], c[2][1], c[2][2], c[2][3])
         IN AbandonSpent(
                IF times = 1 \/ IsChannelName(c[2][3]) THEN once
                ELSE _abandon_claim(once, store, d, h, c[1], c[2][1], c[2][2], c[2][3]),
                store, d, h, Tail(spent_claims), times)

\* abandoned_channels, expired_channels: the spent claims that are channels
SpentChannels(spent_claims) == SelectSeq(spent_claims, LAMBDA c : IsChannelName(c[2][3]))

SpentNotChannels(spent_claims) == SelectSeq(spent_claims, LAMBDA c : ~IsChannelName(c[2][3]))

\* for expired_claim_hash, (tx_num, position, name, txi) in expired.items()
RECURSIVE SpendExpired(_, _, _, _)
SpendExpired(S, store, d, expired) ==
    IF expired = <<>> THEN S
    ELSE LET e == Head(expired)[2]
         IN SpendExpired(
                IF DictHas(S.txo_to_claim, <<e.tx_num, e.position>>) THEN S
                ELSE _spend_claim_txo(S, store, d, e.txi,
                                      get_pending_tx_num(S, store, e.txi.prev_hash)),
                store, d, Tail(expired))

\* _expire_claims(height): every claim is abandoned by the call in the loop,
\* a claim that is not a channel by the call in its else branch too, and
\* the channels once more at the end
ExpireSpent(S, store, d, h) ==
    AbandonSpent(AbandonSpent(S, store, d, h, S.spent_claims, 2),
                 store, d, h, SpentChannels(S.spent_claims), 1)

_expire_claims(S, store, d, h) ==
    IF S.error # None THEN S
    ELSE ExpireSpent(
            SpendExpired(
                [S EXCEPT !.expired_claim_hashes =
                              @ \cup DictKeys(get_expired_by_height(store, h)),
                          !.spent_claims = <<>>],
                store, d, get_expired_by_height(store, h)),
            store, d, h)

\* ---- pending amounts (the amount_cache holds values that do not change
\* ---- while _get_takeover_ops and _get_cumulative_update_ops run)

_cached_get_active_amount(S, store, claim_hash, txo_type, as_of) ==
    IF txo_type = ACTIVATED_CLAIM_TXO_TYPE
    THEN IF DictHas(S.claim_hash_to_txo, claim_hash)
         THEN DictGet(S.txo_to_claim, DictGet(S.claim_hash_to_txo, claim_hash)).amount
         ELSE get_active_amount_as_of_height(store, claim_hash, as_of)
    ELSE _get_active_amount(store, claim_hash, txo_type, as_of)

_get_pending_claim_amount(S, store, name, claim_hash, as_of) ==
    IF DictHas(S.activated_claim_amount_by_name_and_hash, <<name, claim_hash>>)
    THEN IF DictHas(S.claim_hash_to_txo, claim_hash)
         THEN DictGet(S.txo_to_claim, DictGet(S.claim_hash_to_txo, claim_hash)).amount
         ELSE DictGet(S.activated_claim_amount_by_name_and_hash, <<name, claim_hash>>)
    ELSE IF DictHas(S.possible_future_claim_amount_by_name_and_hash, <<name, claim_hash>>)
         THEN DictGet(S.possible_future_claim_amount_by_name_and_hash, <<name, claim_hash>>)
         ELSE _cached_get_active_amount(S, store, claim_hash, ACTIVATED_CLAIM_TXO_TYPE, as_of)

_get_pending_supported_amount(S, store, claim_hash, as_of) ==
    _cached_get_active_amount(S, store, claim_hash, ACTIVATED_SUPPORT_TXO_TYPE, as_of)
    + Sum(DictGetOr(S.activated_support_amount_by_claim, claim_hash, <<>>))
    + Sum(DictGetOr(S.possible_future_support_amounts_by_claim_hash, claim_hash, <<>>))
    - Sum(DictGetOr(S.removed_active_support_amount_by_claim, claim_hash, <<>>))

\* _get_pending_effective_amount(name, claim_hash, as_of); the callers that
\* pass no as_of get self.height + 1, the as_of of the new block
_get_pending_effective_amount(S, store, name, claim_hash, as_of) ==
    _get_pending_claim_amount(S, store, name, claim_hash, as_of)
    + _get_pending_supported_amount(S, store, claim_hash, as_of)

\* ---- _get_takeover_ops(as_of)

PendingActivationKey(activation_height, txo_type, tx_num, position) ==
    [height |-> activation_height, txo_type |-> txo_type, tx_num |-> tx_num, position |-> position]

\* get_delayed_activate_ops once the delay is known
DelayedActivate(S, h, name, claim_hash, tx_num, nout, amount, txo_type, delay) ==
    [S EXCEPT
        !.activated_at_height =
            IF delay = 0
            THEN DictAppend(@, <<claim_hash, name>>,
                            PendingActivationKey(h, txo_type, tx_num, nout))
            ELSE @,
        !.activate_in_future =
            IF delay # 0
            THEN DictAppend(@, <<name, claim_hash>>,
                            <<PendingActivationKey(h + delay, txo_type, tx_num, nout), amount>>)
            ELSE @,
        !.possible_future_support_txos_by_claim_hash =
            IF delay # 0 /\ txo_type = ACTIVATED_SUPPORT_TXO_TYPE
            THEN DictAppend(@, claim_hash, <<tx_num, nout>>)
            ELSE @,
        !.ops = get_activate_ops(@, txo_type, claim_hash, tx_num, nout, h + delay, name,
                                 amount)]

\* the delay get_delayed_activate_ops computes
ActivationDelay(S, store, h, name, claim_hash, is_new_claim) ==
    IF \/ ~has_controlling_claim(store, name)
       \/ claim_hash = get_controlling_claim(store, name).claim_hash
       \/ SeqHas(S.names_with_abandoned_or_updated_controlling_claims, name)
    THEN 0
    ELSE IF is_new_claim
         THEN get_delay_for_name(h - get_controlling_claim(store, name).height)
         ELSE IF _get_pending_effective_amount(S, store, name, claim_hash, h) >
                 _get_pending_effective_amount(S, store, name,
                     get_controlling_claim(store, name).claim_hash, h)
              THEN get_delay_for_name(h - get_controlling_claim(store, name).height)
              ELSE 0

get_delayed_activate_ops(S, store, h, name, claim_hash, is_new_claim, tx_num, nout, amount, is_support) ==
    DelayedActivate(S, h, name, claim_hash, tx_num, nout, amount,
        IF is_support THEN ACTIVATED_SUPPORT_TXO_TYPE ELSE ACTIVATED_CLAIM_TXO_TYPE,
        ActivationDelay(S, store, h, name, claim_hash, is_new_claim))

IsControlling(store, name, claim_hash) ==
    /\ has_controlling_claim(store, name)
    /\ get_controlling_claim(store, name).claim_hash = claim_hash

\* for claim_hash, staged in self.abandoned_claims.items()
RECURSIVE DeactivateAbandoned(_, _, _)
DeactivateAbandoned(S, store, abandoned) ==
    IF abandoned = <<>> THEN S
    ELSE LET claim_hash == Head(abandoned)[1]
             staged == Head(abandoned)[2]
             activation == get_activation(store, ACTIVATED_CLAIM_TXO_TYPE,
                                          staged.tx_num, staged.position)
         IN DeactivateAbandoned(
                [S EXCEPT
                    !.names_with_abandoned_or_updated_controlling_claims =
                        IF IsControlling(store, staged.name, claim_hash)
                        THEN Append(@, staged.name) ELSE @,
                    !.ops =
                        IF activation > 0
                        THEN get_remove_activate_ops(@, ACTIVATED_CLAIM_TXO_TYPE,
                                 staged.claim_hash, staged.tx_num, staged.position,
                                 activation, staged.name, staged.amount)
                        ELSE @],
                store, Tail(abandoned))

\* for claim_hash, amounts in self.removed_active_support_amount_by_claim.items()
RECURSIVE RemovedSupports(_, _, _)
RemovedSupports(S, store, removed) ==
    IF removed = <<>> THEN S
    ELSE LET claim_hash == Head(removed)[1]
             name == _get_pending_claim_name(S, store, claim_hash)
         IN RemovedSupports(
                IF /\ name # None
                   /\ IsControlling(store, name, claim_hash)
                   /\ ~SeqHas(S.names_with_abandoned_or_updated_controlling_claims, name)
                THEN [S EXCEPT !.abandoned_support_check_need_takeover =
                         DictSet(@, <<name, claim_hash>>,
                                 DictGetOr(@, <<name, claim_hash>>, <<>>) \o Head(removed)[2])]
                ELSE S,
                store, Tail(removed))

\* for claim_hash in self.updated_claims
RECURSIVE UpdatedClaims(_, _, _)
UpdatedClaims(S, store, updated) ==
    IF updated = {} THEN S
    ELSE LET claim_hash == CHOOSE c \in updated : \A o \in updated : c <= o
             name == _get_pending_claim_name(S, store, claim_hash)
         IN UpdatedClaims(
                IF /\ ~DictHas(S.abandoned_claims, claim_hash)
                   /\ name # None
                   /\ IsControlling(store, name, claim_hash)
                   /\ ~SeqHas(S.names_with_abandoned_or_updated_controlling_claims, name)
                THEN [S EXCEPT !.names_with_abandoned_or_updated_controlling_claims =
                         Append(@, name)]
                ELSE S,
                store, updated \ {claim_hash})

\* is_delayed of a staged claim: it is new, or the claim cache holds an
\* output for it that is not activated at this height
IsDelayed(S, store, h, staged) ==
    LET prev_txo == get_cached_claim_txo(S.ops, store, staged.claim_hash)
        prev_activation == get_activation(store, ACTIVATED_CLAIM_TXO_TYPE,
                                          prev_txo[1], prev_txo[2])
    IN \/ ~is_update(staged)
       \/ prev_txo # <<>> /\ (h < prev_activation \/ prev_activation < 0)

\* for (tx_num, nout), staged in self.txo_to_claim.items()
RECURSIVE StagedClaims(_, _, _, _)
StagedClaims(S, store, h, claims) ==
    IF claims = <<>> THEN S
    ELSE LET staged == Head(claims)[2]
         IN StagedClaims(
                get_delayed_activate_ops(S, store, h, staged.name, staged.claim_hash,
                    IsDelayed(S, store, h, staged), Head(claims)[1][1], Head(claims)[1][2],
                    staged.amount, FALSE),
                store, h, Tail(claims))

\* one support of the loop over self.support_txo_to_claim.items()
StagedSupport(S, store, h, txo, claim_hash, amount) ==
    IF DictHas(S.abandoned_claims, claim_hash) THEN S
    ELSE IF DictHas(S.claim_hash_to_txo, claim_hash)
    THEN get_delayed_activate_ops(S, store, h,
             DictGet(S.txo_to_claim, DictGet(S.claim_hash_to_txo, claim_hash)).name,
             claim_hash,
             ~is_update(DictGet(S.txo_to_claim, DictGet(S.claim_hash_to_txo, claim_hash))),
             txo[1], txo[2], amount, TRUE)
    ELSE IF ~has_claim_txo(store, claim_hash) THEN S
    ELSE get_delayed_activate_ops(S, store, h,
             get_claim_txo(store, claim_hash).name, claim_hash,
             <<get_claim_txo(store, claim_hash).root_tx_num,
               get_claim_txo(store, claim_hash).root_position>> =
             <<get_claim_txo(store, claim_hash).tx_num,
               get_claim_txo(store, claim_hash).position>>,
             txo[1], txo[2], amount, TRUE)

\* for (tx_num, nout), (claim_hash, amount) in self.support_txo_to_claim.items()
RECURSIVE StagedSupports(_, _, _, _)
StagedSupports(S, store, h, supports) ==
    IF supports = <<>> THEN S
    ELSE StagedSupports(
            StagedSupport(S, store, h, Head(supports)[1], Head(supports)[2][1],
                          Head(supports)[2][2]),
            store, h, Tail(supports))

\* one output of `for activated_txo in activated_txos`
ActivateTxo(S, store, name, claim_hash, activated_txo) ==
    IF activated_txo.txo_type = ACTIVATED_SUPPORT_TXO_TYPE
    THEN IF SeqHas(DictGetOr(S.removed_support_txos_by_name_by_claim,
                             <<name, claim_hash>>, <<>>),
                   <<activated_txo.tx_num, activated_txo.position>>)
         THEN S
         ELSE IF DictHas(S.support_txo_to_claim,
                         <<activated_txo.tx_num, activated_txo.position>>)
         THEN [S EXCEPT
                 !.activated_support_amount_by_claim = DictAppend(@, claim_hash,
                     DictGet(S.support_txo_to_claim,
                             <<activated_txo.tx_num, activated_txo.position>>)[2]),
                 !.activation_by_claim_by_name = DictSet(@, name,
                     DictAppend(DictGetOr(@, name, <<>>), claim_hash,
                         <<activated_txo,
                           DictGet(S.support_txo_to_claim,
                                   <<activated_txo.tx_num, activated_txo.position>>)[2]>>))]
         ELSE IF <<"claim_to_support", claim_hash, activated_txo.tx_num,
                   activated_txo.position>> \notin DOMAIN store
         THEN S
         ELSE [S EXCEPT
                 !.activated_support_amount_by_claim = DictAppend(@, claim_hash,
                     store[<<"claim_to_support", claim_hash, activated_txo.tx_num,
                             activated_txo.position>>]),
                 !.activation_by_claim_by_name = DictSet(@, name,
                     DictAppend(DictGetOr(@, name, <<>>), claim_hash,
                         <<activated_txo,
                           store[<<"claim_to_support", claim_hash, activated_txo.tx_num,
                                   activated_txo.position>>]>>))]
    ELSE IF DictHas(S.txo_to_claim, <<activated_txo.tx_num, activated_txo.position>>)
    THEN [S EXCEPT
            !.activated_claim_amount_by_name_and_hash = DictSet(@, <<name, claim_hash>>,
                DictGet(S.txo_to_claim,
                        <<activated_txo.tx_num, activated_txo.position>>).amount),
            !.activation_by_claim_by_name = DictSet(@, name,
                DictAppend(DictGetOr(@, name, <<>>), claim_hash,
                    <<activated_txo,
                      DictGet(S.txo_to_claim,
                              <<activated_txo.tx_num, activated_txo.position>>).amount>>))]
    ELSE IF ~has_claim_txo(store, claim_hash) THEN S
    ELSE [S EXCEPT
            !.activated_claim_amount_by_name_and_hash = DictSet(@, <<name, claim_hash>>,
                get_claim_txo(store, claim_hash).amount),
            !.activation_by_claim_by_name = DictSet(@, name,
                DictAppend(DictGetOr(@, name, <<>>), claim_hash,
                    <<activated_txo, get_claim_txo(store, claim_hash).amount>>))]

RECURSIVE ActivateTxos(_, _, _, _, _)
ActivateTxos(S, store, name, claim_hash, activated_txos) ==
    IF activated_txos = <<>> THEN S
    ELSE ActivateTxos(ActivateTxo(S, store, name, claim_hash, Head(activated_txos)),
                      store, name, claim_hash, Tail(activated_txos))

\* for activated, activated_txos in activated_at_height.items()
RECURSIVE Activate(_, _, _)
Activate(S, store, activated_at_height) ==
    IF activated_at_height = <<>> THEN S
    ELSE Activate(
            IF DictHas(S.abandoned_claims, Head(activated_at_height)[1][1]) THEN S
            ELSE ActivateTxos(S, store, Head(activated_at_height)[1][2],
                              Head(activated_at_height)[1][1], Head(activated_at_height)[2]),
            store, Tail(activated_at_height))

\* for candidate_claim_hash, (tx_num, nout) in existing.items()
RECURSIVE Candidates(_, _, _, _)
Candidates(S, store, need_takeover, existing) ==
    IF existing = <<>> THEN S
    ELSE LET candidate_claim_hash == Head(existing)[1]
             activate_key == PendingActivationKey(
                 get_activation(store, ACTIVATED_CLAIM_TXO_TYPE,
                                Head(existing)[2][1], Head(existing)[2][2]),
                 ACTIVATED_CLAIM_TXO_TYPE, Head(existing)[2][1], Head(existing)[2][2])
         IN Candidates(
                IF DictHas(S.abandoned_claims, candidate_claim_hash) THEN S
                ELSE [S EXCEPT
                        !.activation_by_claim_by_name = DictSet(@, need_takeover,
                            DictAppend(DictGetOr(@, need_takeover, <<>>), candidate_claim_hash,
                                <<activate_key,
                                  get_claim_txo(store, candidate_claim_hash).amount>>)),
                        !.need_reactivate_if_takes_over =
                            DictSet(@, <<need_takeover, candidate_claim_hash>>, activate_key)],
                store, need_takeover, Tail(existing))

\* a name that keeps its takeover record when no claim is left for it
KeepTakeover(S, store, need_takeover) == S

\* if not has_candidate: the name is now unclaimed, its takeover record is
\* deleted
DeleteTakeover(S, store, need_takeover) ==
    [S EXCEPT !.ops = stage_delete(@, <<"claim_takeover", need_takeover>>,
                                   get_controlling_claim(store, need_takeover))]

\* for need_takeover in names_with_abandoned_or_updated_controlling_claims
RECURSIVE NeedTakeover(_, _, _)
NeedTakeover(S, store, names) ==
    IF names = <<>> THEN S
    ELSE LET existing == get_claim_txos_for_name(store, Head(names))
         IN NeedTakeover(
                IF \A i \in 1..Len(existing) : DictHas(S.abandoned_claims, existing[i][1])
                THEN DeleteTakeover(S, store, Head(names))
                ELSE Candidates(S, store, Head(names), existing),
                store, Tail(names))

\* claim_hash in self.claim_hash_to_txo or db.get_claim_txo(claim_hash) is not None
claim_exists(S, store, claim_hash) ==
    DictHas(S.claim_hash_to_txo, claim_hash) \/ has_claim_txo(store, claim_hash)

\* for activated, activated_claim_txo in self.db.get_future_activated(height).items()
RECURSIVE FutureActivated(_, _, _)
FutureActivated(S, store, future) ==
    IF future = <<>> THEN S
    ELSE LET claim_hash == Head(future)[1][1]
             name == Head(future)[1][2]
         IN FutureActivated(
                IF claim_exists(S, store, claim_hash) /\ ~DictHas(S.abandoned_claims, claim_hash)
                THEN [S EXCEPT !.future_activations = DictSet(@, name,
                         DictSet(DictGetOr(@, name, <<>>), claim_hash,
                             _get_pending_claim_amount(S, store, name, claim_hash,
                                 Head(future)[2].height + 1)))]
                ELSE S,
                store, Tail(future))

\* for txo in activated, of the loop over activate_in_future
RECURSIVE FutureTxos(_, _, _, _)
FutureTxos(S, name, claim_hash, activated) ==
    IF activated = <<>> THEN S
    ELSE FutureTxos(
            [S EXCEPT
                !.future_activations = DictSet(@, name,
                    DictSet(DictGetOr(@, name, <<>>), claim_hash, Head(activated)[2])),
                !.possible_future_claim_amount_by_name_and_hash =
                    IF Head(activated)[1].txo_type = ACTIVATED_CLAIM_TXO_TYPE
                    THEN DictSet(@, <<name, claim_hash>>, Head(activated)[2]) ELSE @,
                !.possible_future_support_amounts_by_claim_hash =
                    IF Head(activated)[1].txo_type = ACTIVATED_SUPPORT_TXO_TYPE
                    THEN DictAppend(@, claim_hash, Head(activated)[2]) ELSE @],
            name, claim_hash, Tail(activated))

\* for name, future_activated in activate_in_future.items(): for claim_hash,
\* activated in future_activated.items()
RECURSIVE ActivateInFuture(_, _, _)
ActivateInFuture(S, store, in_future) ==
    IF in_future = <<>> THEN S
    ELSE ActivateInFuture(
            IF \/ ~claim_exists(S, store, Head(in_future)[1][2])
               \/ DictHas(S.abandoned_claims, Head(in_future)[1][2])
            THEN S
            ELSE FutureTxos(S, Head(in_future)[1][1], Head(in_future)[1][2],
                            Head(in_future)[2]),
            store, Tail(in_future))

\* {claim_hash: self._get_pending_effective_amount(name, claim_hash, height)
\*  for claim_hash in keys if claim_hash not in self.abandoned_claims},
\* written over `amounts`
RECURSIVE Amounts(_, _, _, _, _, _)
Amounts(S, store, name, keys, as_of, amounts) ==
    IF keys = <<>> THEN amounts
    ELSE Amounts(S, store, name, Tail(keys), as_of,
            IF DictHas(S.abandoned_claims, Head(keys)) THEN amounts
            ELSE DictSet(amounts, Head(keys),
                     _get_pending_effective_amount(S, store, name, Head(keys), as_of)))

Keys(d) == [i \in 1..Len(d) |-> d[i][1]]

\* the amounts of the activated claims and of the controlling claim
CurrentAmounts(S, store, h, name, keys) ==
    Amounts(S, store, name,
        IF has_controlling_claim(store, name)
        THEN Append(keys, get_controlling_claim(store, name).claim_hash)
        ELSE keys,
        h, <<>>)

\* the condition of a takeover by winning_claim_hash
TakesOver(S, store, name, amounts, winning_claim_hash) ==
    \/ ~has_controlling_claim(store, name)
    \/ /\ winning_claim_hash # get_controlling_claim(store, name).claim_hash
       /\ SeqHas(S.names_with_abandoned_or_updated_controlling_claims, name)
    \/ /\ winning_claim_hash # get_controlling_claim(store, name).claim_hash
       /\ DictGet(amounts, winning_claim_hash) >
          DictGet(amounts, get_controlling_claim(store, name).claim_hash)

\* the takeover record is rewritten and both claims are touched
WriteTakeover(S, store, h, name, winner) ==
    [S EXCEPT
        !.taken_over_names = @ \cup {name},
        !.ops = stage_put(
                    IF has_controlling_claim(store, name)
                    THEN stage_delete(@, <<"claim_takeover", name>>,
                                      get_controlling_claim(store, name))
                    ELSE @,
                    <<"claim_takeover", name>>, [claim_hash |-> winner, height |-> h]),
        !.touched_claim_hashes =
            @ \cup {winner} \cup
            IF /\ has_controlling_claim(store, name)
               /\ ~DictHas(S.abandoned_claims, get_controlling_claim(store, name).claim_hash)
            THEN {get_controlling_claim(store, name).claim_hash} ELSE {}]

\* the activation height the staged output txo of the claim has been given
\* in this block; -1 if none is found (the assertion fails)
StagedActivation(S, name, claim_hash, txo) ==
    LET future == DictGetOr(S.activate_in_future, <<name, claim_hash>>, <<>>)
        now == DictGetOr(S.activated_at_height, <<claim_hash, name>>, <<>>)
        is_txo(k) == <<k.tx_num, k.position>> = txo
    IN IF \E i \in 1..Len(future) : is_txo(future[i][1])
       THEN future[CHOOSE i \in 1..Len(future) :
                /\ is_txo(future[i][1])
                /\ \A j \in 1..(i - 1) : ~is_txo(future[j][1])][1].height
       ELSE IF \E i \in 1..Len(now) : is_txo(now[i])
            THEN now[CHOOSE i \in 1..Len(now) :
                     /\ is_txo(now[i])
                     /\ \A j \in 1..(i - 1) : ~is_txo(now[j])].height
            ELSE -1

\* for (k, amount) in activate_in_future[name][winning_including_future_activations]
RECURSIVE ReactivateSupports(_, _, _, _, _)
ReactivateSupports(S, h, name, claim_hash, in_future) ==
    IF in_future = <<>> THEN S
    ELSE LET k == Head(in_future)[1]
         IN ReactivateSupports(
                IF SeqHas(DictGetOr(S.possible_future_support_txos_by_claim_hash,
                                    claim_hash, <<>>), <<k.tx_num, k.position>>)
                THEN [S EXCEPT !.ops =
                        get_activate_ops(
                            get_remove_activate_ops(@, ACTIVATED_SUPPORT_TXO_TYPE, claim_hash,
                                k.tx_num, k.position, k.height, name, Head(in_future)[2]),
                            ACTIVATED_SUPPORT_TXO_TYPE, claim_hash, k.tx_num, k.position, h,
                            name, Head(in_future)[2])]
                ELSE S,
                h, name, claim_hash, Tail(in_future))

\* the claim output is activated at h instead of at `activation`
Reactivate(S, h, name, claim_hash, tx_num, position, activation, amount) ==
    [S EXCEPT !.ops =
        get_activate_ops(
            get_remove_activate_ops(@, ACTIVATED_CLAIM_TXO_TYPE, claim_hash, tx_num, position,
                                    activation, name, amount),
            ACTIVATED_CLAIM_TXO_TYPE, claim_hash, tx_num, position, h, name, amount)]

\* a pending activated claim jumps the takeover delay and takes over
EarlyTakeover(S, store, h, name, winner) ==
    IF ~DictHas(S.claim_hash_to_txo, winner)
    THEN LET claim == get_claim_txo(store, winner)
         IN WriteTakeover(
                ReactivateSupports(
                    Reactivate(S, h, name, winner, claim.tx_num, claim.position,
                        get_activation(store, ACTIVATED_CLAIM_TXO_TYPE, claim.tx_num,
                                       claim.position),
                        claim.amount),
                    h, name, winner, DictGetOr(S.activate_in_future, <<name, winner>>, <<>>)),
                store, h, name, winner)
    ELSE LET txo == DictGet(S.claim_hash_to_txo, winner)
         IN IF StagedActivation(S, name, winner, txo) = -1
            THEN [S EXCEPT !.error = "AssertionError"]
            ELSE WriteTakeover(
                    ReactivateSupports(
                        Reactivate(S, h, name, winner, txo[1], txo[2],
                            StagedActivation(S, name, winner, txo),
                            DictGet(S.txo_to_claim, txo).amount),
                        h, name, winner,
                        DictGetOr(S.activate_in_future, <<name, winner>>, <<>>)),
                    store, h, name, winner)

\* the winner was a candidate with an activation in the future: move it to now
ReactivateCandidate(S, store, h, name, winner, previous_pending_activate) ==
    IF previous_pending_activate.height <= h THEN S
    ELSE IF DictHas(S.claim_hash_to_txo, winner)
    THEN LET txo == DictGet(S.claim_hash_to_txo, winner)
             amount == DictGet(S.txo_to_claim, txo).amount
         IN [S EXCEPT !.ops =
                get_activate_ops(
                    IF txo[1] < S.self_tx_count
                    THEN get_remove_activate_ops(@, ACTIVATED_CLAIM_TXO_TYPE, winner, txo[1],
                             txo[2], previous_pending_activate.height, name, amount)
                    ELSE @,
                    ACTIVATED_CLAIM_TXO_TYPE, winner, txo[1], txo[2], h, name, amount)]
    ELSE LET amount == get_claim_txo(store, winner).amount
             tx_num == previous_pending_activate.tx_num
             position == previous_pending_activate.position
         IN [S EXCEPT !.ops =
                get_activate_ops(
                    IF tx_num < S.self_tx_count
                    THEN get_remove_activate_ops(@, ACTIVATED_CLAIM_TXO_TYPE, winner, tx_num,
                             position, previous_pending_activate.height, name, amount)
                    ELSE @,
                    ACTIVATED_CLAIM_TXO_TYPE, winner, tx_num, position, h, name, amount)]

\* takeover by the winner of the claims activated in this block
Takeover(S, store, h, name, winner) ==
    WriteTakeover(
        IF DictHas(S.need_reactivate_if_takes_over, <<name, winner>>)
        THEN ReactivateCandidate(S, store, h, name, winner,
                 DictGet(S.need_reactivate_if_takes_over, <<name, winner>>))
        ELSE S,
        store, h, name, winner)

\* one name of `for name, activated in self.activation_by_claim_by_name.items()`
\* once both dicts of amounts are computed
TakeoverOf(S, store, h, name, amounts, amounts_with_future_activations) ==
    IF ~TakesOver(S, store, name, amounts, ArgMax(amounts)) THEN S
    ELSE IF /\ ArgMax(amounts) # ArgMax(amounts_with_future_activations)
            /\ DictGet(amounts_with_future_activations,
                       ArgMax(amounts_with_future_activations)) >
               DictGet(amounts, ArgMax(amounts))
         THEN EarlyTakeover(S, store, h, name, ArgMax(amounts_with_future_activations))
         ELSE Takeover(S, store, h, name, ArgMax(amounts))

\* amounts, and amounts_with_future_activations from it
WithFuture(S, store, h, name, amounts) ==
    TakeoverOf(S, store, h, name, amounts,
        Amounts(S, store, name, Keys(DictGetOr(S.future_activations, name, <<>>)),
                h + maxTakeoverDelay, amounts))

RECURSIVE ProcessTakeovers(_, _, _, _)
ProcessTakeovers(S, store, h, by_name) ==
    IF by_name = <<>> \/ S.error # None THEN S
    ELSE ProcessTakeovers(
            WithFuture([S EXCEPT !.checked_names = @ \cup {Head(by_name)[1]}],
                store, h, Head(by_name)[1],
                CurrentAmounts(S, store, h, Head(by_name)[1], Keys(Head(by_name)[2]))),
            store, h, Tail(by_name))

\* the takeover the sweep over the abandoned supports writes
SweepTakeover(S, store, h, name, winning) ==
    IF ~((has_controlling_claim(store, name)
              /\ winning # get_controlling_claim(store, name).claim_hash)
         \/ ~has_controlling_claim(store, name))
    THEN S
    ELSE [S EXCEPT
            !.taken_over_names = @ \cup {name},
            !.ops = stage_put(
                        IF has_controlling_claim(store, name)
                        THEN stage_delete(@, <<"claim_takeover", name>>,
                                          get_controlling_claim(store, name))
                        ELSE @,
                        <<"claim_takeover", name>>, [claim_hash |-> winning, height |-> h]),
            !.touched_claim_hashes =
                @ \cup {winning} \cup
                IF has_controlling_claim(store, name)
                THEN {get_controlling_claim(store, name).claim_hash} ELSE {}]

\* for (name, claim_hash), amounts in abandoned_support_check_need_takeover.items()
RECURSIVE SupportSweep(_, _, _, _)
SupportSweep(S, store, h, check) ==
    IF check = <<>> \/ S.error # None THEN S
    ELSE SupportSweep(
            IF Head(check)[1][1] \in S.checked_names THEN S
            ELSE SweepTakeover([S EXCEPT !.checked_names = @ \cup {Head(check)[1][1]}],
                     store, h, Head(check)[1][1],
                     ArgMax(CurrentAmounts(S, store, h, Head(check)[1][1],
                                get_claims_for_name(store, Head(check)[1][1])))),
            store, h, Tail(check))

\* the loops of _get_takeover_ops, each over the collection it iterates
TakeoverAbandoned(S, store) == DeactivateAbandoned(S, store, S.abandoned_claims)

TakeoverRemovedSupports(S, store) ==
    RemovedSupports(S, store, S.removed_active_support_amount_by_claim)

TakeoverUpdated(S, store) == UpdatedClaims(S, store, S.updated_claims)

TakeoverStagedClaims(S, store, h) == StagedClaims(S, store, h, S.txo_to_claim)

TakeoverStagedSupports(S, store, h) == StagedSupports(S, store, h, S.support_txo_to_claim)

TakeoverActivate(S, store) == Activate(S, store, S.activated_at_height)

TakeoverCandidates(S, store) ==
    NeedTakeover(S, store, S.names_with_abandoned_or_updated_controlling_claims)

TakeoverFuture(S, store, h) == FutureActivated(S, store, get_future_activated(store, h))

TakeoverInFuture(S, store) == ActivateInFuture(S, store, S.activate_in_future)

TakeoverProcess(S, store, h) == ProcessTakeovers(S, store, h, S.activation_by_claim_by_name)

TakeoverSweep(S, store, h) ==
    SupportSweep(S, store, h, S.abandoned_support_check_need_takeover)

_get_takeover_ops(S, store, h) ==
    IF S.error # None THEN S
    ELSE TakeoverSweep(TakeoverProcess(TakeoverInFuture(TakeoverFuture(
         TakeoverCandidates(TakeoverActivate(TakeoverStagedSupports(TakeoverStagedClaims(
         TakeoverUpdated(TakeoverRemovedSupports(TakeoverAbandoned(
             [S EXCEPT !.activated_at_height = get_activated_at_height(store, h)],
             store), store), store), store, h), store, h), store), store), store, h), store),
             store, h), store, h)

\* ---- _get_cumulative_update_ops(height)

\* the elements of a set of claim hashes in ascending order
RECURSIVE SetToSeq(_)
SetToSeq(s) ==
    IF s = {} THEN <<>>
    ELSE LET least == CHOOSE x \in s : \A y \in s : x <= y
         IN <<least>> \o SetToSeq(s \ {least})

\* for name in self.taken_over_names: the claims of the name are touched
TakenOverTouched(S, store) ==
    [S EXCEPT !.touched_claim_hashes =
        @ \cup {c \in UNION {DictKeys(get_claim_txos_for_name(store, name)) :
                                name \in S.taken_over_names} :
                   ~DictHas(S.abandoned_claims, c)}]

\* the cumulative removed and touched sets
RemovedAndTouched(S) ==
    LET removed == S.removed_claim_hashes \cup DictKeys(S.abandoned_claims)
    IN [S EXCEPT
           !.removed_claim_hashes = removed,
           !.touched_claim_hashes =
               (@ \ removed) \cup
               (({k[2] : k \in DictKeys(S.activated_claim_amount_by_name_and_hash)}
                    \cup DictKeys(S.claim_hash_to_txo)
                    \cup DictKeys(S.removed_active_support_amount_by_claim)
                    \cup S.signatures_changed
                    \cup DictKeys(S.activated_support_amount_by_claim)
                    \cup DictKeys(S.pending_support_amount_change)) \ removed)]

\* for supported_claim, amount in self.pending_support_amount_change.items()
RECURSIVE SupportAmounts(_, _, _)
SupportAmounts(ops, store, change) ==
    IF change = <<>> THEN ops
    ELSE LET key == <<"support_amount", Head(change)[1]>>
         IN SupportAmounts(
                IF key \in DOMAIN store
                THEN stage_put(stage_delete(ops, key, store[key]), key,
                               Head(change)[2] + store[key])
                ELSE stage_put(ops, key, Head(change)[2]),
                store, Tail(change))

\* the effective_amount row the DB holds for the claim is deleted
DeleteEffectiveAmount(ops, store, name, claim_hash) ==
    IF ~has_url_effective_amount(store, name, claim_hash) THEN ops
    ELSE LET amt == get_url_effective_amount(store, name, claim_hash)
         IN stage_delete(ops,
                <<"effective_amount", name, amt.effective_amount, amt.tx_num, amt.position>>,
                claim_hash)

\* for removed in self.removed_claim_hashes
RECURSIVE RemovedEffectiveAmounts(_, _, _)
RemovedEffectiveAmounts(ops, store, removed) ==
    IF removed = <<>> THEN ops
    ELSE RemovedEffectiveAmounts(
            IF has_claim_txo(store, Head(removed))
            THEN DeleteEffectiveAmount(ops, store, get_claim_txo(store, Head(removed)).name,
                                       Head(removed))
            ELSE ops,
            store, Tail(removed))

\* one claim of `for touched in self.touched_claim_hashes`
TouchedEffectiveAmount(S, ops, store, h, touched) ==
    IF DictHas(S.claim_hash_to_txo, touched)
    THEN LET pending == DictGet(S.txo_to_claim, DictGet(S.claim_hash_to_txo, touched))
         IN stage_put(
                IF has_claim_txo(store, touched)
                THEN DeleteEffectiveAmount(ops, store, pending.name, touched)
                ELSE ops,
                <<"effective_amount", pending.name,
                  _get_pending_effective_amount(S, store, pending.name, touched, h),
                  pending.tx_num, pending.position>>,
                touched)
    ELSE IF ~has_claim_txo(store, touched) THEN ops
    ELSE LET v == get_claim_txo(store, touched)
         IN stage_put(
                DeleteEffectiveAmount(ops, store, v.name, touched),
                <<"effective_amount", v.name,
                  _get_pending_effective_amount(S, store, v.name, touched, h),
                  v.tx_num, v.position>>,
                touched)

RECURSIVE TouchedEffectiveAmounts(_, _, _, _, _)
TouchedEffectiveAmounts(S, ops, store, h, touched) ==
    IF touched = <<>> THEN ops
    ELSE TouchedEffectiveAmounts(S,
            TouchedEffectiveAmount(S, ops, store, h, Head(touched)), store, h, Tail(touched))

\* the rows of the support totals and of the bid order, from the sets
CumulativeRows(S, store, h) ==
    [S EXCEPT !.ops =
        TouchedEffectiveAmounts(S,
            RemovedEffectiveAmounts(
                SupportAmounts(@, store, S.pending_support_amount_change),
                store, SetToSeq(S.removed_claim_hashes)),
            store, h, SetToSeq(S.touched_claim_hashes))]

\* for channel_hash, count in self.pending_channel_counts.items()
RECURSIVE ChannelCountOps(_, _, _)
ChannelCountOps(ops, store, counts) ==
    IF counts = <<>> THEN ops
    ELSE LET key == <<"channel_count", Head(counts)[1]>>
             count == Head(counts)[2]
         IN ChannelCountOps(
                IF count = 0 THEN ops
                ELSE IF key \in DOMAIN store
                     THEN stage_put(stage_delete(ops, key, store[key]), key,
                                    store[key] + count)
                     ELSE stage_put(ops, key, count),
                store, Tail(counts))

\* the channel_count rows, and the channels whose count changed are touched
ChannelCounts(S, store) ==
    [S EXCEPT
        !.ops = ChannelCountOps(@, store, S.pending_channel_counts),
        !.touched_claim_hashes =
            @ \cup {c \in DictKeys(S.pending_channel_counts) :
                       /\ DictGet(S.pending_channel_counts, c) # 0
                       /\ c \notin S.removed_claim_hashes}]

_get_cumulative_update_ops(S, store, h) ==
    IF S.error # None THEN S
    ELSE ChannelCounts(
            CumulativeRows(RemovedAndTouched(TakenOverTouched(S, store)), store, h),
            store)

RECURSIVE SpendInputs(_, _, _, _, _, _)
SpendInputs(S, store, d, h, inputs, tx_num) ==
    IF inputs = <<>> \/ S.error # None THEN S
    ELSE LET txin == Head(inputs)
             spent == spend_utxo(S, store, txin.prev_hash, txin.prev_idx)
         IN SpendInputs(
                IF spent.error # None THEN spent
                ELSE _spend_claim_or_support_txo(NoteHistory(spent, tx_num), store, d, h, txin),
                store, d, h, Tail(inputs), tx_num)

RECURSIVE AddOutputs(_, _, _, _, _, _, _)
AddOutputs(S, store, d, h, tx, tx_num, nout) ==
    IF nout >= Len(tx.outputs) \/ S.error # None THEN S
    ELSE AddOutputs(
            _add_claim_or_support(
                NoteHistory(add_utxo(S, tx.hash, tx_num, nout, tx.outputs[nout + 1]), tx_num),
                store, d, h, tx.outputs[nout + 1], tx_num, nout),
            store, d, h, tx, tx_num, nout + 1)

\* the tx, tx_num and tx_hash rows, and spent_claims = {}
StartTx(S, tx) ==
    [S EXCEPT
        !.ops = stage_put(stage_put(stage_put(@, <<"tx", tx.hash>>, tx),
                                    <<"tx_num", tx.hash>>, S.tx_count),
                          <<"tx_hash", S.tx_count>>, tx.hash),
        !.spent_claims = <<>>]

\* Handle abandoned claims: the channels are abandoned last
AbandonTx(S, store, d, h) ==
    IF S.error # None THEN S
    ELSE AbandonSpent(
            AbandonSpent(S, store, d, h, SpentNotChannels(S.spent_claims), 1),
            store, d, h, SpentChannels(S.spent_claims), 1)

\* the transaction is pending; tx_count += 1
EndTx(S, tx) ==
    IF S.error # None THEN S
    ELSE [S EXCEPT
            !.pending_transactions = (S.tx_count :> tx.hash) @@ @,
            !.pending_transaction_num_mapping = (tx.hash :> S.tx_count) @@ @,
            !.tx_count = S.tx_count + 1]

\* one iteration of `for tx, tx_hash in txs` of advance_block
ProcessTx(S, store, d, h, tx) ==
    EndTx(AbandonTx(AddOutputs(SpendInputs(StartTx(S, tx), store, d, h, tx.inputs,
                                           S.tx_count),
                               store, d, h, tx, S.tx_count, 0),
                    store, d, h),
          tx)

RECURSIVE ProcessTxs(_, _, _, _, _)
ProcessTxs(S, store, d, h, txs) ==
    IF txs = <<>> \/ S.error # None THEN S
    ELSE ProcessTxs(ProcessTx(S, store, d, h, Head(txs)), store, d, h, Tail(txs))

\* staged puts of hashX_history for every hashX with new history
RECURSIVE StageHistory(_, _, _, _)
StageHistory(ops, by_tx, todo, h) ==
    IF todo = {} THEN ops
    ELSE LET hashX == CHOOSE x \in todo : TRUE
         IN StageHistory(stage_put(ops, <<"hashX_history", hashX, h>>, by_tx[hashX]),
                         by_tx, todo \ {hashX}, h)

\* staged deletes of the rows of column `col` with heights in [from, min_height)
RECURSIVE StageDeleteBelow(_, _, _, _, _)
StageDeleteBelow(ops, store, col, from, min_height) ==
    IF from >= min_height THEN ops
    ELSE StageDeleteBelow(
            IF <<col, from>> \in DOMAIN store
            THEN stage_delete(ops, <<col, from>>, store[<<col, from>>])
            ELSE ops,
            store, col, from + 1, min_height)

\* ------------------------------------------------------------------------
\* BlockProcessor.advance_block, flush, backup_block
\* ------------------------------------------------------------------------

\* the state an advance_block call starts from
StartOfBlock ==
    [ops |-> op_stack, touched_hashXs |-> touched_hashXs, tx_count |-> tx_count,
     utxo_cache |-> staging.utxo_cache, hashXs_by_tx |-> staging.hashXs_by_tx,
     pending_transaction_num_mapping |-> staging.pending_transaction_num_mapping,
     pending_transactions |-> staging.pending_transactions,
     error |-> None, ret |-> None,
     \* the claim collections, which flush() has cleared after the block before
     self_tx_count |-> tx_count, spent |-> FALSE, spent_claims |-> <<>>,
     channel_signature_is_valid |-> FALSE, pending_channels |-> <<>>,
     doesnt_have_valid_signature |-> {}, claim_channels |-> <<>>,
     signatures_changed |-> {}, pending_channel_counts |-> <<>>,
     txo_to_claim |-> <<>>, claim_hash_to_txo |-> <<>>, support_txos_by_claim |-> <<>>,
     support_txo_to_claim |-> <<>>, removed_support_txos_by_name_by_claim |-> <<>>,
     abandoned_claims |-> <<>>, removed_active_support_amount_by_claim |-> <<>>,
     activated_support_amount_by_claim |-> <<>>,
     activated_claim_amount_by_name_and_hash |-> <<>>,
     activation_by_claim_by_name |-> <<>>,
     possible_future_claim_amount_by_name_and_hash |-> <<>>,
     possible_future_support_amounts_by_claim_hash |-> <<>>,
     possible_future_support_txos_by_claim_hash |-> <<>>,
     touched_claim_hashes |-> {}, removed_claim_hashes |-> {}, updated_claims |-> {},
     taken_over_names |-> {}, pending_support_amount_change |-> <<>>,
     expired_claim_hashes |-> {},
     \* the locals of _get_takeover_ops
     names_with_abandoned_or_updated_controlling_claims |-> <<>>,
     activated_at_height |-> <<>>, activate_in_future |-> <<>>,
     future_activations |-> <<>>, need_reactivate_if_takes_over |-> <<>>,
     abandoned_support_check_need_takeover |-> <<>>, checked_names |-> {}]

\* self.db.prefix_db.block_hash/header/block_txs .stage_put at the new height
StageHeader(S, block, h) ==
    [S EXCEPT !.ops =
        stage_put(stage_put(stage_put(@,
            <<"block_hash", h>>, header_hash(block.header)),
            <<"header", h>>, block.header),
            <<"block_txs", h>>, [i \in 1..Len(block.transactions) |->
                                     block.transactions[i].hash])]

\* self.db.prefix_db.tx_count.stage_put(key_args=(height,), value_args=(tx_count,))
StageTxCount(S, h) ==
    IF S.error # None THEN S
    ELSE [S EXCEPT !.ops = stage_put(@, <<"tx_count", h>>, S.tx_count)]

\* for hashX, new_history in self.hashXs_by_tx.items(): hashX_history.stage_put
StageHashXHistory(S, h) ==
    IF S.error # None THEN S
    ELSE [S EXCEPT !.ops = StageHistory(@, S.hashXs_by_tx, DOMAIN S.hashXs_by_tx, h)]

\* self.db.prefix_db.touched_or_deleted.stage_put at the new height
StageTouchedOrDeleted(S, h) ==
    IF S.error # None THEN S
    ELSE [S EXCEPT !.ops = stage_put(@, <<"touched_or_deleted", h>>,
                                     [touched_claims |-> S.touched_claim_hashes,
                                      deleted_claims |-> S.removed_claim_hashes])]

\* if height > db_height - reorg_limit ... stage deletes of the undo and
\* touched_or_deleted rows below min_undo_height(db_height)
StagePruneUndo(S, store, min_height) ==
    IF S.error # None \/ min_height <= 0 THEN S
    ELSE [S EXCEPT !.ops =
            StageDeleteBelow(StageDeleteBelow(@, store, "undo", 0, min_height),
                             store, "touched_or_deleted", 0, min_height)]

\* the staged operations of advance_block(block) up to db.write_db_state()
AdvanceOps(block, h) ==
    StagePruneUndo(
        StageTouchedOrDeleted(
            StageHashXHistory(
                StageTxCount(
                    _get_cumulative_update_ops(
                        _get_takeover_ops(
                            _expire_claims(
                                ProcessTxs(StageHeader(StartOfBlock, block, h), kv, db, h,
                                           block.transactions),
                                kv, db, h),
                            kv, h),
                        kv, h),
                    h),
                h),
            h),
        kv, min_undo_height(db.db_height))

\* the cursors of advance_block with db_height left where it was
AdvanceDbStaleHeight(block, h, S) ==
    [db EXCEPT
        !.tx_counts = Append(@, S.tx_count),
        !.headers = Append(@, block.header),
        !.fs_height = h,
        !.fs_tx_count = S.tx_count,
        !.hist_flush_count = @ + 1,
        !.utxo_flush_count = db.hist_flush_count + 1,
        !.db_tx_count = S.tx_count,
        !.db_tip = header_hash(block.header),
        !.last_flush_tx_count = S.tx_count]

\* the in-memory cursors of self.db at the end of advance_block
AdvanceDb(block, h, S) ==
    [db EXCEPT
        !.tx_counts = Append(@, S.tx_count),
        !.headers = Append(@, block.header),
        !.fs_height = h,
        !.fs_tx_count = S.tx_count,
        !.hist_flush_count = @ + 1,
        !.utxo_flush_count = db.hist_flush_count + 1,
        !.db_height = h,
        !.db_tx_count = S.tx_count,
        !.db_tip = header_hash(block.header),
        !.last_flush_tx_count = S.tx_count]

Snapshot(block) ==
    [block |-> block, kv |-> kv, height |-> height, tx_count |-> tx_count, tip |-> tip,
     tx_counts |-> db.tx_counts, headers |-> db.headers, db_height |-> db.db_height,
     db_tx_count |-> db.db_tx_count, db_tip |-> db.db_tip]

\* the assignments advance_block makes once its operations S are staged
\* (a raised ChainError leaves the cursors as they were)
AdvanceBlockWith(block, h, S) ==
    IF S.error # None
    THEN /\ op_stack' = S.ops
         /\ UNCHANGED <<height, tip, tx_count, db, staging, touched_hashXs>>
    ELSE /\ db' = AdvanceDb(block, h, S)
         /\ op_stack' = write_db_state(S.ops, kv, db')
         /\ staging' = [utxo_cache |-> S.utxo_cache,
                        hashXs_by_tx |-> S.hashXs_by_tx,
                        pending_transaction_num_mapping |-> S.pending_transaction_num_mapping,
                        pending_transactions |-> S.pending_transactions]
         /\ touched_hashXs' = S.touched_hashXs
         /\ tx_count' = S.tx_count
         /\ height' = h
         /\ tip' = header_hash(block.header)

\* advance_block run to its end in one step, with the history of the claims
AdvanceBlockIn(block, h, S) ==
    /\ AdvanceBlockWith(block, h, S)
    /\ pc' = IF S.error # None THEN "fatal" ELSE "staged"
    /\ snap' = IF S.error # None THEN snap
               ELSE Append(SubSeq(snap, 1, height), Snapshot(block))

\* check_and_advance_blocks, hprevs == chain: run_in_thread(advance_block, block)
AdvanceBlock(block) ==
    /\ pc \in {"idle", "flushed"}
    /\ height < daemon_height
    /\ db.hist_flush_count < MaxFlushCount
    /\ header_prevhash(block.header) = tip
    /\ AdvanceBlockIn(block, height + 1, AdvanceOps(block, height + 1))
    /\ UNCHANGED <<kv, daemon_height, caught_up, saved, run>>

\* a flush that persists an undo record only strictly inside the window
SaveUndoStrict == (daemon_height - height) < REORG_LIMIT

\* flush(): save_undo = (self.daemon.cached_height() - self.height) <= self.env.reorg_limit
SaveUndo == (daemon_height - height) <= REORG_LIMIT

\* a flush() that does not call clear_after_advance_or_reorg
FlushKeepStaging(save_undo) ==
    /\ kv' = IF save_undo
             THEN commit(kv, write_db_state(op_stack, kv, db), height)
             ELSE unsafe_commit(kv, write_db_state(op_stack, kv, db))
    /\ op_stack' = <<>>
    /\ UNCHANGED staging

\* the function flush() runs in the chain executor: write_db_state, commit
\* or unsafe_commit, clear_after_advance_or_reorg
FlushWith(save_undo) ==
    /\ kv' = IF save_undo
             THEN commit(kv, write_db_state(op_stack, kv, db), height)
             ELSE unsafe_commit(kv, write_db_state(op_stack, kv, db))
    /\ op_stack' = <<>>
    /\ staging' = EmptyStaging

Flush ==
    /\ pc = "staged"
    /\ FlushWith(SaveUndo)
    /\ pc' = "flushed"
    /\ saved' = Append(SubSeq(saved, 1, height - 1),
                        (daemon_height - height) <= REORG_LIMIT)
    /\ run' = IF run.bk > 0 THEN [adv |-> 1, bk |-> 0] ELSE [run EXCEPT !.adv = @ + 1]
    /\ UNCHANGED <<height, tip, tx_count, db, touched_hashXs, daemon_height, caught_up, snap>>

\* the function flush() of _es_caught_up and _first_caught_up, with the
\* cursors d: write_db_state; unsafe_commit
StateFlush(d) == unsafe_commit(kv, write_db_state(op_stack, kv, d))

\* _es_caught_up(): es_sync_height = height; write_db_state; unsafe_commit
EsCaughtUpDb == [db EXCEPT !.es_sync_height = height]

\* end of a batch of check_and_advance_blocks: the search index is brought
\* up to date unless this is the first sync; touched_hashXs is cleared
EndBatch ==
    /\ pc = "flushed"
    /\ pc' = "idle"
    /\ IF ~db.first_sync
       THEN /\ db' = EsCaughtUpDb
            /\ kv' = StateFlush(EsCaughtUpDb)
       ELSE UNCHANGED <<db, kv>>
    /\ touched_hashXs' = {}
    /\ UNCHANGED <<height, tip, tx_count, op_stack, staging, daemon_height, caught_up,
                   snap, saved, run>>

\* _first_caught_up(): first_sync = False; write_db_state; unsafe_commit
FirstCaughtUp ==
    /\ pc = "idle"
    /\ height = daemon_height
    /\ ~caught_up
    /\ caught_up' = TRUE
    /\ db' = [db EXCEPT !.first_sync = FALSE]
    /\ kv' = StateFlush([db EXCEPT !.first_sync = FALSE])
    /\ run' = [adv |-> 0, bk |-> 0]
    /\ UNCHANGED <<height, tip, tx_count, op_stack, staging, touched_hashXs, daemon_height,
                   pc, snap, saved>>

\* a backup_block that leaves db.tx_counts as it is
BackupCursorsKeepCounts ==
    [db EXCEPT
        !.headers = Front(@),
        !.fs_tx_count = Last(Front(db.tx_counts)),
        !.hist_flush_count = @ + 1,
        !.fs_height = Min(@, height - 1),
        !.utxo_flush_count = db.hist_flush_count + 1,
        !.db_height = height - 1,
        !.db_tx_count = Last(Front(db.tx_counts)),
        !.db_tip = header_hash(Last(Front(db.headers))),
        !.last_flush_tx_count = Last(Front(db.tx_counts))]

\* the in-memory cursors of self.db that backup_block sets before it
\* dispatches the rollback
BackupCursors ==
    [db EXCEPT
        !.headers = Front(@),
        !.tx_counts = Front(@),
        !.fs_tx_count = Last(Front(db.tx_counts)),
        !.hist_flush_count = @ + 1,
        !.fs_height = Min(@, height - 1),
        !.utxo_flush_count = db.hist_flush_count + 1,
        !.db_height = height - 1,
        !.db_tx_count = Last(Front(db.tx_counts)),
        !.db_tip = header_hash(Last(Front(db.headers))),
        !.last_flush_tx_count = Last(Front(db.tx_counts))]

\* the cursors once rollback() has also set es_sync_height
BackupDb == [BackupCursors EXCEPT !.es_sync_height = height - 1]

\* a backup that writes the DB state without rolling the block back
BackupCommitNoRollback(store, h, d) ==
    unsafe_commit(store, write_db_state(<<>>, store, d))

\* backup_block.flush_undo: rollback(height + 1), write_db_state, unsafe_commit
BackupCommit(store, h, d) ==
    unsafe_commit(rollback(store, h), write_db_state(<<>>, rollback(store, h), d))

\* backup_block(): pop the header, restore the cursors, then under the lock
\* rollback(height + 1), write_db_state, unsafe_commit; then clear the staging
BackupBlock ==
    /\ pc = "idle"
    /\ height >= 1
    /\ db.hist_flush_count < MaxFlushCount
    /\ IF op_stack # <<>> \/ <<"touched_or_deleted", height>> \notin DOMAIN kv
       THEN \* the assertion, or the read of touched_or_deleted, fails
            /\ pc' = "fatal"
            /\ UNCHANGED <<height, tx_count, tip, db, kv, op_stack, staging, run>>
       ELSE /\ height' = height - 1
            /\ tx_count' = BackupDb.db_tx_count
            /\ tip' = BackupDb.db_tip
            /\ IF <<"undo", height>> \in DOMAIN kv
               THEN /\ kv' = BackupCommit(kv, height, BackupDb)
                    /\ db' = BackupDb
                    /\ pc' = "idle"
                    /\ staging' = EmptyStaging
                    /\ run' = [run EXCEPT !.bk = @ + 1]
                    /\ UNCHANGED op_stack
               ELSE \* rollback fails: the undo record is missing
                    /\ db' = BackupCursors
                    /\ pc' = "fatal"
                    /\ UNCHANGED <<kv, op_stack, staging, run>>
    /\ UNCHANGED <<touched_hashXs, daemon_height, caught_up, snap, saved>>

\* the daemon learns of a new block
DaemonMine ==
    /\ daemon_height < MaxHeight
    /\ daemon_height' = daemon_height + 1
    /\ UNCHANGED <<height, tip, tx_count, db, kv, op_stack, staging, touched_hashXs,
                   caught_up, pc, snap, saved, run>>

\* ------------------------------------------------------------------------
\* Specification of the chain layer
\* ------------------------------------------------------------------------

GenesisHeader == [hash |-> GENESIS_HASH, prev |-> GENESIS_HASH]

InitDb(first_sync) ==
    [db_height |-> 0, db_tx_count |-> 0, db_tip |-> GENESIS_HASH, fs_height |-> 0,
     fs_tx_count |-> 0, hist_flush_count |-> 0, utxo_flush_count |-> 0,
     last_flush_tx_count |-> 0, es_sync_height |-> 0, first_sync |-> first_sync,
     tx_counts |-> <<0>>, headers |-> <<GenesisHeader>>]

InitKv(first_sync) ==
    (<<"block_hash", 0>> :> GENESIS_HASH) @@ (<<"header", 0>> :> GenesisHeader)
    @@ (<<"block_txs", 0>> :> <<>>) @@ (<<"tx_count", 0>> :> 0)
    @@ (<<"touched_or_deleted", 0>> :> [touched_claims |-> {}, deleted_claims |-> {}])
    @@ (DbStateKey :> DbStateValue(InitDb(first_sync)))

\* the state after fetch_and_process_blocks has opened a DB holding genesis
ChainInit ==
    /\ height = 0
    /\ tip = GENESIS_HASH
    /\ tx_count = 0
    /\ \E first_sync \in BOOLEAN :
          /\ db = InitDb(first_sync)
          /\ kv = InitKv(first_sync)
    /\ op_stack = <<>>
    /\ staging = EmptyStaging
    /\ touched_hashXs = {}
    /\ daemon_height \in 0..MaxHeight
    /\ caught_up = FALSE
    /\ pc = "idle"
    /\ snap = <<>>
    /\ saved = <<>>
    /\ run = [adv |-> 0, bk |-> 0]
    /\ daemon_chain = <<>>
    /\ pf = None /\ bp = None /\ mp = None /\ state_lock = None
    /\ exec = None /\ reader = None /\ top = None

Init == ChainInit

Next ==
    \/ \E block \in NextBlocks(tip) : AdvanceBlock(block) /\ UNCHANGED schedVars
    \/ Flush /\ UNCHANGED schedVars
    \/ EndBatch /\ UNCHANGED schedVars
    \/ FirstCaughtUp /\ UNCHANGED schedVars
    \/ BackupBlock /\ UNCHANGED schedVars
    \/ DaemonMine /\ UNCHANGED schedVars

vars == <<chainVars, schedVars>>

Spec == Init /\ [][Next]_vars

\* ------------------------------------------------------------------------
\* The tasks of fetch_and_process_blocks, the mempool refresh, the two
\* executors and the shutdown.  An action is the code of one task between
\* two suspension points, or one function running in an executor thread.
\* ------------------------------------------------------------------------

\* in this layer the daemon mines blocks of variant 1; the blocks of the
\* chain it switches to in a reorganisation start with one of variant 2
SchedVariants == {1, 2}
\* greatest length of the daemon's chain in this layer
SchedMaxHeight == 3
\* Prefetcher.min_cache_size, counted in blocks (a block has size 1, and
\* so has ave_size)
min_cache_size == 2
\* Prefetcher.ave_size with blocks of size 1
ave_size == 1

chainData == <<height, tip, tx_count, db, kv, op_stack, staging, touched_hashXs>>

history == <<snap, saved, run>>

\* the hash of the daemon's block at height h
DaemonHash(h) == SubSeq(daemon_chain, 1, h)

\* the event loop is blocked while the finally clause of
\* fetch_and_process_blocks waits in executor.shutdown(wait=True)
LoopFree == top.pc # "finally"

IdleExec == [job |-> None, st |-> "idle"]

JobReturned == exec.st \in {"done", "error"}

\* the daemon finds a new block
SchedDaemonMine ==
    /\ Len(daemon_chain) < SchedMaxHeight
    /\ daemon_chain' = Append(daemon_chain, 1)
    /\ UNCHANGED <<chainData, daemon_height, caught_up, pc, history,
                   pf, bp, mp, state_lock, exec, reader, top>>

\* the daemon switches to another chain of the same length that forks off
\* below height k (once in a behaviour)
DaemonReorg ==
    /\ \A i \in 1..Len(daemon_chain) : daemon_chain[i] = 1
    /\ \E k \in 1..Len(daemon_chain) :
          daemon_chain' = [i \in 1..Len(daemon_chain) |->
                              IF i = k THEN 2 ELSE daemon_chain[i]]
    /\ UNCHANGED <<chainData, daemon_height, caught_up, pc, history,
                   pf, bp, mp, state_lock, exec, reader, top>>

\* ---- Prefetcher ----

\* a count that leaves the room of the cache out
FetchCountNoRoom(p) == Min(500, Max(p.daemon_height - p.fetched_height, 0))

\* count = min(500, max(min(daemon_height - fetched_height, cache_room), 0))
FetchCount(p) ==
    Min(500, Max(Min(p.daemon_height - p.fetched_height, min_cache_size \div ave_size), 0))

\* a loop that clears refill_event also when it returns caught up
PrefetchLoopClearCaughtUp(p) ==
    IF Len(p.blocks) >= min_cache_size
    THEN [p EXCEPT !.semaphore = "free", !.refill_event = FALSE, !.pc = "wait_refill",
                   !.first = 0, !.count = 0]
    ELSE IF FetchCount(p) = 0
         THEN [p EXCEPT !.semaphore = "free", !.caught_up = TRUE, !.pc = "sleep",
                        !.refill_event = FALSE, !.first = 0, !.count = 0]
         ELSE [p EXCEPT !.semaphore = "pf", !.pc = "fetch",
                        !.first = p.fetched_height + 1, !.count = FetchCount(p)]

\* _prefetch_blocks from the test of its while loop on, the semaphore held;
\* first and count are its locals while it awaits the daemon
PrefetchLoop(p) ==
    IF Len(p.blocks) >= min_cache_size
    THEN [p EXCEPT !.semaphore = "free", !.refill_event = FALSE, !.pc = "wait_refill",
                   !.first = 0, !.count = 0]
    ELSE IF FetchCount(p) = 0
         THEN [p EXCEPT !.semaphore = "free", !.caught_up = TRUE, !.pc = "sleep",
                        !.first = 0, !.count = 0]
         ELSE [p EXCEPT !.semaphore = "pf", !.pc = "fetch",
                        !.first = p.fetched_height + 1, !.count = FetchCount(p)]

\* main_loop: refill_event.wait() returns; _prefetch_blocks: daemon.height()
PfWake ==
    /\ LoopFree
    /\ pf.pc = "wait_refill"
    /\ pf.refill_event
    /\ daemon_height' = Len(daemon_chain)
    /\ pf' = [pf EXCEPT !.pc = "semaphore", !.daemon_height = Len(daemon_chain)]
    /\ UNCHANGED <<chainData, caught_up, pc, history, daemon_chain,
                   bp, mp, state_lock, exec, reader, top>>

\* _prefetch_blocks: async with self.semaphore, up to the first daemon call
PfAcquire ==
    /\ LoopFree
    /\ pf.pc = "semaphore"
    /\ pf.semaphore = "free"
    /\ pf' = PrefetchLoop(pf)
    /\ UNCHANGED <<chainData, daemon_height, caught_up, pc, history, daemon_chain,
                   bp, mp, state_lock, exec, reader, top>>

\* the blocks the daemon returns for the heights first .. first + count - 1
FetchedBlocks(first, count) == [i \in 1..count |-> DaemonHash(first + i - 1)]

\* _prefetch_blocks: block_hex_hashes and raw_blocks return; blocks.extend,
\* blocks_event.set(), and the loop goes round
PfFetch ==
    /\ LoopFree
    /\ pf.pc = "fetch"
    /\ pf' = PrefetchLoop([pf EXCEPT
                              !.blocks = @ \o FetchedBlocks(pf.first, pf.count),
                              !.fetched_height = @ + pf.count])
    /\ bp' = [bp EXCEPT !.blocks_event = TRUE]
    /\ UNCHANGED <<chainData, daemon_height, caught_up, pc, history, daemon_chain,
                   mp, state_lock, exec, reader, top>>

\* a daemon call of _prefetch_blocks raises DaemonError: main_loop logs it
\* and goes round
PfDaemonError ==
    /\ LoopFree
    /\ pf.pc = "fetch"
    /\ pf' = [pf EXCEPT !.semaphore = "free", !.pc = "wait_refill",
                         !.first = 0, !.count = 0]
    /\ UNCHANGED <<chainData, daemon_height, caught_up, pc, history, daemon_chain,
                   bp, mp, state_lock, exec, reader, top>>

\* main_loop: asyncio.sleep(polling_delay) returns
PfSleep ==
    /\ LoopFree
    /\ pf.pc = "sleep"
    /\ pf' = [pf EXCEPT !.pc = "wait_refill"]
    /\ UNCHANGED <<chainData, daemon_height, caught_up, pc, history, daemon_chain,
                   bp, mp, state_lock, exec, reader, top>>

\* ---- MemPool ----

MaxOf(S) == CHOOSE x \in S : \A y \in S : y <= x

\* a notification that leaves the older sets of _touched_mp in place
NotifyKeepOlder(m, h, new_touched) ==
    [m EXCEPT
        !.touched_mp = Restrict(@, DOMAIN @ \ {h}),
        !.touched_bp = Restrict(@, {k \in DOMAIN @ : k > h}),
        !.notified = [height |-> h, new_touched |-> new_touched,
                      touched |-> m.touched_mp[h] \cup
                          UNION {m.touched_bp[k] : k \in {j \in DOMAIN m.touched_bp : j <= h}}]]

\* _maybe_notify once the height is chosen: the notification and what is
\* left of _touched_mp and _touched_bp
Notify(m, h, new_touched) ==
    [m EXCEPT
        !.touched_mp = Restrict(@, {k \in DOMAIN @ : k > h}),
        !.touched_bp = Restrict(@, {k \in DOMAIN @ : k > h}),
        !.notified = [height |-> h, new_touched |-> new_touched,
                      touched |-> m.touched_mp[h] \cup
                          UNION {m.touched_bp[k] : k \in {j \in DOMAIN m.touched_bp : j <= h}}]]

\* a _maybe_notify that takes the greatest mempool height whatever the
\* highest block is
maybe_notify_any_height(m, new_touched) ==
    IF DOMAIN m.touched_mp \cap DOMAIN m.touched_bp # {}
    THEN Notify(m, MaxOf(DOMAIN m.touched_mp \cap DOMAIN m.touched_bp), new_touched)
    ELSE IF DOMAIN m.touched_mp # {}
         THEN Notify(m, MaxOf(DOMAIN m.touched_mp), new_touched)
         ELSE m

_maybe_notify(m, new_touched) ==
    IF DOMAIN m.touched_mp \cap DOMAIN m.touched_bp # {}
    THEN Notify(m, MaxOf(DOMAIN m.touched_mp \cap DOMAIN m.touched_bp), new_touched)
    ELSE IF DOMAIN m.touched_mp # {} /\ MaxOf(DOMAIN m.touched_mp) = m.highest_block
         THEN Notify(m, m.highest_block, new_touched)
         ELSE m

on_mempool(m, touched, new_touched, h) ==
    _maybe_notify([m EXCEPT !.touched_mp = (h :> touched) @@ @], new_touched)

on_block(m, touched, h) ==
    _maybe_notify([m EXCEPT !.touched_bp = (h :> touched) @@ @, !.highest_block = h], {})

\* _refresh_hashes: height = cached_height(); await mempool_hashes()
\* (the server starts the mempool once the processor has caught up)
MpStart ==
    /\ LoopFree
    /\ caught_up
    /\ mp.pc = "start"
    /\ mp' = [mp EXCEPT !.pc = "hashes", !.height = daemon_height]
    /\ UNCHANGED <<chainData, daemon_height, caught_up, pc, history, daemon_chain,
                   pf, bp, state_lock, exec, reader, top>>

\* _refresh_hashes: if height != await daemon.height(): continue
MpCheckHeight ==
    /\ LoopFree
    /\ mp.pc = "hashes"
    /\ daemon_height' = Len(daemon_chain)
    /\ mp' = [mp EXCEPT !.pc = IF mp.height # Len(daemon_chain) THEN "start" ELSE "lock"]
    /\ UNCHANGED <<chainData, caught_up, pc, history, daemon_chain,
                   pf, bp, state_lock, exec, reader, top>>

\* _refresh_hashes: async with self.lock, up to the daemon and DB reads of
\* _process_mempool
MpAcquire ==
    /\ LoopFree
    /\ mp.pc = "lock"
    /\ state_lock = None
    /\ state_lock' = "mp"
    /\ mp' = [mp EXCEPT !.pc = "locked"]
    /\ UNCHANGED <<chainData, daemon_height, caught_up, pc, history, daemon_chain,
                   pf, bp, exec, reader, top>>

\* _refresh_hashes: _process_mempool returns the touched hashXs, the lock is
\* released, on_mempool
MpRelease ==
    /\ LoopFree
    /\ mp.pc = "locked"
    /\ state_lock' = None
    /\ mp' = [on_mempool(mp, {"m"}, {"m"}, mp.height) EXCEPT !.pc = "sleep"]
    /\ UNCHANGED <<chainData, daemon_height, caught_up, pc, history, daemon_chain,
                   pf, bp, exec, reader, top>>

\* _refresh_hashes: the wait for wakeup or refresh_secs ends
MpSleep ==
    /\ LoopFree
    /\ mp.pc = "sleep"
    /\ mp' = [mp EXCEPT !.pc = "start"]
    /\ UNCHANGED <<chainData, daemon_height, caught_up, pc, history, daemon_chain,
                   pf, bp, state_lock, exec, reader, top>>

\* ---- the executors ----

\* run_in_thread_with_lock dispatching without taking state_lock
run_in_thread_unlocked(func, wait_pc) ==
    /\ IF top.shutdown
       THEN pc' = "fatal" /\ UNCHANGED exec
       ELSE exec' = [job |-> func, st |-> "running"] /\ pc' = wait_pc
    /\ UNCHANGED state_lock

\* run_in_thread_with_lock(func): the shielded inner task takes state_lock
\* and hands func to the chain executor, which refuses it after shutdown
run_in_thread_with_lock(func, wait_pc) ==
    /\ state_lock = None
    /\ IF top.shutdown
       THEN pc' = "fatal" /\ UNCHANGED <<state_lock, exec>>
       ELSE /\ state_lock' = "bp"
            /\ exec' = [job |-> func, st |-> "running"]
            /\ pc' = wait_pc

\* run_in_thread(func): the shielded inner task hands func to the chain
\* executor
run_in_thread(func, wait_pc) ==
    /\ IF top.shutdown
       THEN pc' = "fatal" /\ UNCHANGED exec
       ELSE exec' = [job |-> func, st |-> "running"] /\ pc' = wait_pc
    /\ UNCHANGED state_lock

\* claim_producer: nothing to send below height 2, else claims_producer
\* runs in the reader executor
claim_producer(wait_pc) ==
    IF db.db_height <= 1
    THEN pc' = wait_pc /\ UNCHANGED reader
    ELSE IF top.shutdown
         THEN pc' = "fatal" /\ UNCHANGED reader
         ELSE pc' = wait_pc /\ reader' = "running"

\* the thread of the reader executor runs claims_producer to its end
ReaderRun ==
    /\ reader = "running"
    /\ reader' = "done"
    /\ UNCHANGED <<chainData, daemon_height, caught_up, pc, history, daemon_chain,
                   pf, bp, mp, state_lock, exec, top>>

\* advance_block in the chain executor, with its staged operations S
ExecAdvanceWith(block, h, S) ==
    /\ AdvanceBlockWith(block, h, S)
    /\ exec' = [exec EXCEPT !.st = IF S.error # None THEN "error" ELSE "done"]

\* the thread of the chain executor runs advance_block(block) to its end
ExecAdvance ==
    /\ exec = [job |-> "advance_block", st |-> "running"]
    /\ IF top.db_open
       THEN ExecAdvanceWith(Block(Head(bp.batch)), height + 1,
                            AdvanceOps(Block(Head(bp.batch)), height + 1))
       ELSE exec' = [exec EXCEPT !.st = "error"]
            /\ UNCHANGED <<height, tip, tx_count, db, op_stack, staging, touched_hashXs>>
    /\ UNCHANGED <<kv, daemon_height, caught_up, pc, history, daemon_chain,
                   pf, bp, mp, state_lock, reader, top>>

\* the thread of the chain executor runs the function of flush() to its end
ExecFlush ==
    /\ exec = [job |-> "flush", st |-> "running"]
    /\ IF top.db_open
       THEN FlushWith(bp.save_undo) /\ exec' = [exec EXCEPT !.st = "done"]
       ELSE exec' = [exec EXCEPT !.st = "error"] /\ UNCHANGED <<kv, op_stack, staging>>
    /\ UNCHANGED <<height, tip, tx_count, db, touched_hashXs, daemon_height, caught_up, pc,
                   history, daemon_chain, pf, bp, mp, state_lock, reader, top>>

\* the thread of the chain executor runs the function of _es_caught_up or
\* _first_caught_up: assert the op stack is empty, write_db_state,
\* unsafe_commit
ExecStateFlush ==
    /\ exec = [job |-> "state_flush", st |-> "running"]
    /\ IF top.db_open /\ op_stack = <<>>
       THEN kv' = StateFlush(db) /\ exec' = [exec EXCEPT !.st = "done"]
       ELSE exec' = [exec EXCEPT !.st = "error"] /\ UNCHANGED kv
    /\ UNCHANGED <<height, tip, tx_count, db, op_stack, staging, touched_hashXs,
                   daemon_height, caught_up, pc, history, daemon_chain,
                   pf, bp, mp, state_lock, reader, top>>

\* the thread of the chain executor runs rollback(): prefix_db.rollback
\* writes its batch
ExecRollback ==
    /\ exec = [job |-> "rollback", st |-> "running"]
    /\ IF top.db_open /\ <<"undo", height + 1>> \in DOMAIN kv
       THEN kv' = rollback(kv, height + 1) /\ exec' = [exec EXCEPT !.st = "rolled_back"]
       ELSE exec' = [exec EXCEPT !.st = "error"] /\ UNCHANGED kv
    /\ UNCHANGED <<height, tip, tx_count, db, op_stack, staging, touched_hashXs,
                   daemon_height, caught_up, pc, history, daemon_chain,
                   pf, bp, mp, state_lock, reader, top>>

\* rollback() goes on: es_sync_height = height, write_db_state, unsafe_commit
ExecRollbackState ==
    /\ exec = [job |-> "rollback", st |-> "rolled_back"]
    /\ IF top.db_open
       THEN /\ db' = [db EXCEPT !.es_sync_height = height]
            /\ kv' = StateFlush(db')
            /\ exec' = [exec EXCEPT !.st = "done"]
       ELSE exec' = [exec EXCEPT !.st = "error"] /\ UNCHANGED <<db, kv>>
    /\ UNCHANGED <<height, tip, tx_count, op_stack, staging, touched_hashXs,
                   daemon_height, caught_up, pc, history, daemon_chain,
                   pf, bp, mp, state_lock, reader, top>>

\* ---- _process_prefetched_blocks and check_and_advance_blocks ----

\* _process_prefetched_blocks: the top of the loop; _first_caught_up sets
\* first_sync = False before it dispatches its flush
BpLoopTop ==
    /\ LoopFree
    /\ pc = "idle"
    /\ IF height = daemon_height /\ ~caught_up
       THEN /\ bp' = [bp EXCEPT !.first_sync = db.first_sync]
            /\ db' = [db EXCEPT !.first_sync = FALSE]
            /\ pc' = "fc_lock"
       ELSE /\ pc' = "await_blocks"
            /\ UNCHANGED <<db, bp>>
    /\ UNCHANGED <<height, tip, tx_count, kv, op_stack, staging, touched_hashXs,
                   daemon_height, caught_up, history, daemon_chain,
                   pf, mp, state_lock, exec, reader, top>>

\* _first_caught_up: run_in_thread_with_lock(flush)
BpFirstCaughtUpLock ==
    /\ LoopFree
    /\ pc = "fc_lock"
    /\ run_in_thread_with_lock("state_flush", "fc_wait")
    /\ UNCHANGED <<chainData, daemon_height, caught_up, history, daemon_chain,
                   pf, bp, mp, reader, top>>

\* _first_caught_up returns (if first_sync: shutdown_event.set());
\* _caught_up_event.set()
BpAfterFirstCaughtUp ==
    /\ LoopFree
    /\ pc = "fc_wait"
    /\ JobReturned
    /\ state_lock' = None
    /\ exec' = IdleExec
    /\ IF exec.st = "error"
       THEN pc' = "fatal" /\ UNCHANGED <<caught_up, bp>>
       ELSE /\ pc' = "await_blocks"
            /\ caught_up' = TRUE
            /\ bp' = [bp EXCEPT !.shutdown_event = bp.first_sync]
    /\ UNCHANGED <<chainData, daemon_height, history, daemon_chain, pf, mp, reader, top>>

\* hprevs == chain
FormChain(tip_hash, blocks) ==
    \A i \in 1..Len(blocks) :
        header_prevhash(Block(blocks[i]).header) = IF i = 1 THEN tip_hash ELSE blocks[i - 1]

\* a classification that advances whenever the first block links to the tip
ClassifyFirstLink(blocks) ==
    IF blocks = <<>> THEN "idle"
    ELSE IF header_prevhash(Block(blocks[1]).header) = tip THEN "adv_next"
    ELSE "reorg"

\* check_and_advance_blocks up to its first suspension point
Classify(blocks) ==
    IF blocks = <<>> THEN "idle"
    ELSE IF FormChain(tip, blocks) THEN "adv_next"
    ELSE IF header_prevhash(Block(blocks[1]).header) # tip THEN "reorg"
    ELSE "reset_semaphore"

\* a get_prefetched_blocks that returns the cache and leaves it in place
TakeBlocksKeepCache ==
    /\ LoopFree
    /\ pc = "await_blocks"
    /\ bp.blocks_event
    /\ pf' = [pf EXCEPT !.refill_event = TRUE]
    /\ bp' = [bp EXCEPT !.blocks_event = FALSE,
                        !.batch = IF Classify(pf.blocks) = "adv_next" THEN pf.blocks ELSE <<>>]
    /\ pc' = Classify(pf.blocks)
    /\ UNCHANGED <<chainData, daemon_height, caught_up, history, daemon_chain,
                   mp, state_lock, exec, reader, top>>

\* _process_prefetched_blocks: blocks_event.wait() returns; clear it;
\* get_prefetched_blocks(); check_and_advance_blocks(blocks) starts
BpTakeBlocks ==
    /\ LoopFree
    /\ pc = "await_blocks"
    /\ bp.blocks_event
    /\ pf' = [pf EXCEPT !.blocks = <<>>, !.refill_event = TRUE]
    /\ bp' = [bp EXCEPT !.blocks_event = FALSE,
                        !.batch = IF Classify(pf.blocks) = "adv_next" THEN pf.blocks ELSE <<>>]
    /\ pc' = Classify(pf.blocks)
    /\ UNCHANGED <<chainData, daemon_height, caught_up, history, daemon_chain,
                   mp, state_lock, exec, reader, top>>

\* for block in blocks: run_in_thread(self.advance_block, block)
BpAdvance ==
    /\ LoopFree
    /\ pc = "adv_next"
    /\ bp.batch # <<>>
    /\ db.hist_flush_count < MaxFlushCount
    /\ run_in_thread("advance_block", "adv_wait")
    /\ UNCHANGED <<chainData, daemon_height, caught_up, history, daemon_chain,
                   pf, bp, mp, reader, top>>

\* a processor that announces the block to the mempool as soon as
\* advance_block has returned
BpAfterAdvanceAnnounce ==
    /\ LoopFree
    /\ pc = "adv_wait"
    /\ JobReturned
    /\ exec' = IdleExec
    /\ IF exec.st = "error"
       THEN pc' = "fatal" /\ UNCHANGED <<bp, mp>>
       ELSE /\ pc' = "flush_lock"
            /\ bp' = [bp EXCEPT !.save_undo = SaveUndo]
            /\ mp' = on_block(mp, touched_hashXs, height)
    /\ UNCHANGED <<chainData, daemon_height, caught_up, history, daemon_chain,
                   pf, state_lock, reader, top>>

\* advance_block returned: flush() computes save_undo
BpAfterAdvance ==
    /\ LoopFree
    /\ pc = "adv_wait"
    /\ JobReturned
    /\ exec' = IdleExec
    /\ IF exec.st = "error"
       THEN pc' = "fatal" /\ UNCHANGED bp
       ELSE pc' = "flush_lock" /\ bp' = [bp EXCEPT !.save_undo = SaveUndo]
    /\ UNCHANGED <<chainData, daemon_height, caught_up, history, daemon_chain,
                   pf, mp, state_lock, reader, top>>

\* flush: run_in_thread_with_lock(flush)
BpFlushLock ==
    /\ LoopFree
    /\ pc = "flush_lock"
    /\ run_in_thread_with_lock("flush", "flush_wait")
    /\ UNCHANGED <<chainData, daemon_height, caught_up, history, daemon_chain,
                   pf, bp, mp, reader, top>>

\* flush returned: the loop goes to the next block of the batch
BpAfterFlush ==
    /\ LoopFree
    /\ pc = "flush_wait"
    /\ JobReturned
    /\ state_lock' = None
    /\ exec' = IdleExec
    /\ IF exec.st = "error"
       THEN pc' = "fatal" /\ UNCHANGED bp
       ELSE pc' = "adv_next" /\ bp' = [bp EXCEPT !.batch = Tail(@)]
    /\ UNCHANGED <<chainData, daemon_height, caught_up, history, daemon_chain,
                   pf, mp, reader, top>>

\* the batch is advanced: unless first_sync, the search index is synced
BpBatchDone ==
    /\ LoopFree
    /\ pc = "adv_next"
    /\ bp.batch = <<>>
    /\ IF db.first_sync
       THEN pc' = "batch_end" /\ UNCHANGED reader
       ELSE claim_producer("es_sync")
    /\ UNCHANGED <<chainData, daemon_height, caught_up, history, daemon_chain,
                   pf, bp, mp, state_lock, exec, top>>

\* the search index has taken the claims: _es_caught_up sets es_sync_height
BpEsSynced ==
    /\ LoopFree
    /\ pc = "es_sync"
    /\ reader # "running"
    /\ reader' = "idle"
    /\ db' = [db EXCEPT !.es_sync_height = height]
    /\ pc' = "es_lock"
    /\ UNCHANGED <<height, tip, tx_count, kv, op_stack, staging, touched_hashXs,
                   daemon_height, caught_up, history, daemon_chain,
                   pf, bp, mp, state_lock, exec, top>>

\* _es_caught_up: run_in_thread_with_lock(flush)
BpEsLock ==
    /\ LoopFree
    /\ pc = "es_lock"
    /\ run_in_thread_with_lock("state_flush", "es_wait")
    /\ UNCHANGED <<chainData, daemon_height, caught_up, history, daemon_chain,
                   pf, bp, mp, reader, top>>

\* _es_caught_up returned
BpAfterEs ==
    /\ LoopFree
    /\ pc = "es_wait"
    /\ JobReturned
    /\ state_lock' = None
    /\ exec' = IdleExec
    /\ pc' = IF exec.st = "error" THEN "fatal" ELSE "batch_end"
    /\ UNCHANGED <<chainData, daemon_height, caught_up, history, daemon_chain,
                   pf, bp, mp, reader, top>>

\* if self._caught_up_event.is_set(): await self.mempool.on_block(...);
\* self.touched_hashXs.clear()
BpBatchEnd ==
    /\ LoopFree
    /\ pc = "batch_end"
    /\ mp' = IF caught_up THEN on_block(mp, touched_hashXs, height) ELSE mp
    /\ touched_hashXs' = {}
    /\ pc' = "idle"
    /\ UNCHANGED <<height, tip, tx_count, db, kv, op_stack, staging,
                   daemon_height, caught_up, history, daemon_chain,
                   pf, bp, state_lock, exec, reader, top>>

\* the loop over reversed(range(min_start_height, min_start_height +
\* REORG_LIMIT)) from height h down: the count, or -1 for the TypeError of
\* a block hash the DB does not hold
RECURSIVE ReorgCount(_, _, _)
ReorgCount(h, min_start_height, count) ==
    IF h < min_start_height THEN count
    ELSE IF <<"block_hash", h>> \notin DOMAIN kv THEN -1
    ELSE IF kv[<<"block_hash", h>>] = DaemonHash(h) THEN count
    ELSE ReorgCount(h - 1, min_start_height, count + 1)

\* min_start_height = max(self.height - self.coin.REORG_LIMIT, 0)
MinStartHeight == Max(height - REORG_LIMIT, 0)

\* hprevs[0] != chain[0]: block_hex_hashes(min_start_height, REORG_LIMIT)
\* returns and the blocks to unwind are counted (run.bk counts the calls of
\* backup_block this reorg makes)
BpReorgCount ==
    /\ LoopFree
    /\ pc = "reorg"
    /\ IF \/ ~top.db_open
          \/ Len(daemon_chain) < MinStartHeight + REORG_LIMIT - 1
          \/ ReorgCount(MinStartHeight + REORG_LIMIT - 1, MinStartHeight, 1) = -1
       THEN pc' = "fatal" /\ UNCHANGED bp
       ELSE /\ pc' = "bk_next"
            /\ bp' = [bp EXCEPT !.count =
                        ReorgCount(MinStartHeight + REORG_LIMIT - 1, MinStartHeight, 1)]
    /\ run' = [adv |-> 0, bk |-> 0]
    /\ UNCHANGED <<chainData, daemon_height, caught_up, snap, saved, daemon_chain,
                   pf, mp, state_lock, exec, reader, top>>

\* backup_block up to run_in_thread_with_lock(rollback): the assertion, the
\* read of touched_or_deleted, the pops, the cursors
BpBackup ==
    /\ LoopFree
    /\ pc = "bk_next"
    /\ bp.count > 0
    /\ db.hist_flush_count < MaxFlushCount
    /\ IF \/ ~top.db_open
          \/ op_stack # <<>>
          \/ <<"touched_or_deleted", height>> \notin DOMAIN kv
       THEN pc' = "fatal" /\ UNCHANGED <<height, tx_count, tip, db>>
       ELSE IF Len(db.headers) = 1
            THEN \* self.db.headers[-1] of the emptied list raises IndexError
                 /\ pc' = "fatal"
                 /\ db' = [db EXCEPT !.headers = Front(@), !.tx_counts = Front(@)]
                 /\ UNCHANGED <<height, tx_count, tip>>
            ELSE /\ pc' = "bk_lock"
                 /\ height' = height - 1
                 /\ tx_count' = BackupCursors.db_tx_count
                 /\ tip' = BackupCursors.db_tip
                 /\ db' = BackupCursors
    /\ run' = [run EXCEPT !.bk = @ + 1]
    /\ UNCHANGED <<kv, op_stack, staging, touched_hashXs, daemon_height, caught_up,
                   snap, saved, daemon_chain, pf, bp, mp, state_lock, exec, reader, top>>

\* backup_block: run_in_thread_with_lock(rollback)
BpBackupLock ==
    /\ LoopFree
    /\ pc = "bk_lock"
    /\ run_in_thread_with_lock("rollback", "bk_wait")
    /\ UNCHANGED <<chainData, daemon_height, caught_up, history, daemon_chain,
                   pf, bp, mp, reader, top>>

\* the inner task of run_in_thread_with_lock(rollback) ends: state_lock is
\* released, and backup_block is resumed by a later callback of the loop
BpAfterBackup ==
    /\ LoopFree
    /\ pc = "bk_wait"
    /\ JobReturned
    /\ state_lock' = None
    /\ exec' = IdleExec
    /\ pc' = IF exec.st = "error" THEN "fatal" ELSE "bk_clear"
    /\ UNCHANGED <<chainData, daemon_height, caught_up, history, daemon_chain,
                   pf, bp, mp, reader, top>>

\* backup_block goes on: clear_after_advance_or_reorg, then the search index
\* is told of the claims of the block
BpBackupClear ==
    /\ LoopFree
    /\ pc = "bk_clear"
    /\ staging' = EmptyStaging
    /\ claim_producer("bk_es_sync")
    /\ UNCHANGED <<height, tip, tx_count, db, kv, op_stack, touched_hashXs,
                   daemon_height, caught_up, history, daemon_chain,
                   pf, bp, mp, state_lock, exec, top>>

\* the search index has taken the claims of the block backed up
BpBackupSynced ==
    /\ LoopFree
    /\ pc = "bk_es_sync"
    /\ reader # "running"
    /\ reader' = "idle"
    /\ bp' = [bp EXCEPT !.count = @ - 1]
    /\ pc' = "bk_next"
    /\ UNCHANGED <<chainData, daemon_height, caught_up, history, daemon_chain,
                   pf, mp, state_lock, exec, top>>

\* the blocks are unwound: prefetcher.reset_height(self.height) is awaited
BpReorgDone ==
    /\ LoopFree
    /\ pc = "bk_next"
    /\ bp.count = 0
    /\ pc' = "reset_semaphore"
    /\ UNCHANGED <<chainData, daemon_height, caught_up, history, daemon_chain,
                   pf, bp, mp, state_lock, exec, reader, top>>

\* a reset_height that does not wait for the semaphore
ResetHeightNoSemaphore ==
    /\ LoopFree
    /\ pc = "reset_semaphore"
    /\ pf' = [pf EXCEPT !.blocks = <<>>, !.fetched_height = height, !.refill_event = TRUE]
    /\ pc' = "reset_height"
    /\ UNCHANGED <<chainData, daemon_height, caught_up, history, daemon_chain,
                   bp, mp, state_lock, exec, reader, top>>

\* reset_height: async with self.semaphore: clear the cache, set
\* fetched_height, refill_event.set()
BpResetHeight ==
    /\ LoopFree
    /\ pc = "reset_semaphore"
    /\ pf.semaphore = "free"
    /\ pf' = [pf EXCEPT !.blocks = <<>>, !.fetched_height = height, !.refill_event = TRUE]
    /\ pc' = "reset_height"
    /\ UNCHANGED <<chainData, daemon_height, caught_up, history, daemon_chain,
                   bp, mp, state_lock, exec, reader, top>>

\* reset_height: daemon.height() returns; check_and_advance_blocks returns
BpResetDone ==
    /\ LoopFree
    /\ pc = "reset_height"
    /\ daemon_height' = Len(daemon_chain)
    /\ pc' = "idle"
    /\ UNCHANGED <<chainData, caught_up, history, daemon_chain,
                   pf, bp, mp, state_lock, exec, reader, top>>

\* ---- fetch_and_process_blocks ----

\* a shutdown that closes the DB without waiting for the executors
ExecutorsFinishedNoWait == TRUE

\* _sync_reader_executor.shutdown(wait=True) and
\* _chain_executor.shutdown(wait=True) have returned
ExecutorsFinished == exec.st \notin {"running", "rolled_back"} /\ reader # "running"

\* the task of fetch_and_process_blocks is cancelled while it waits in
\* asyncio.wait: its finally clause starts with status_server.stop()
Cancel ==
    /\ top.pc = "wait"
    /\ top' = [top EXCEPT !.pc = "finally", !.status = FALSE,
                          !.cancelled_in = [job |-> exec.job, st |-> exec.st,
                                            height |-> height]]
    /\ UNCHANGED <<chainData, daemon_height, caught_up, pc, history, daemon_chain,
                   pf, bp, mp, state_lock, exec, reader>>

\* the finally clause: both executors are shut down, then db.close()
Close ==
    /\ top.pc = "finally"
    /\ ExecutorsFinished
    /\ top' = [top EXCEPT !.pc = "closed", !.shutdown = TRUE, !.db_open = FALSE]
    /\ UNCHANGED <<chainData, daemon_height, caught_up, pc, history, daemon_chain,
                   pf, bp, mp, state_lock, exec, reader>>

\* ------------------------------------------------------------------------
\* Specification of the tasks
\* ------------------------------------------------------------------------

SchedInit ==
    /\ height = 0
    /\ tip = GENESIS_HASH
    /\ tx_count = 0
    /\ \E first_sync \in BOOLEAN :
          /\ db = InitDb(first_sync)
          /\ kv = InitKv(first_sync)
    /\ op_stack = <<>>
    /\ staging = EmptyStaging
    /\ touched_hashXs = {}
    /\ daemon_chain \in {<<>>, [i \in 1..SchedMaxHeight |-> 1]}
    /\ daemon_height = Len(daemon_chain)
    /\ caught_up = FALSE
    /\ pc = "idle"
    /\ snap = <<>>
    /\ saved = <<>>
    /\ run = [adv |-> 0, bk |-> 0]
    /\ pf = [pc |-> "wait_refill", blocks |-> <<>>, fetched_height |-> 0,
             first |-> 0, count |-> 0,
             caught_up |-> FALSE, refill_event |-> TRUE, semaphore |-> "free",
             daemon_height |-> Len(daemon_chain)]
    /\ bp = [batch |-> <<>>, count |-> 0, save_undo |-> FALSE, blocks_event |-> FALSE,
             first_sync |-> FALSE, shutdown_event |-> FALSE]
    /\ mp = [pc |-> "start", height |-> 0, touched_mp |-> <<>>, touched_bp |-> <<>>,
             highest_block |-> -1, notified |-> None]
    /\ state_lock = None
    /\ exec = IdleExec
    /\ reader = "idle"
    /\ top = [pc |-> "wait", db_open |-> TRUE, status |-> TRUE, shutdown |-> FALSE,
              cancelled_in |-> None]

SchedNext ==
    \/ SchedDaemonMine
    \/ DaemonReorg
    \/ PfWake
    \/ PfAcquire
    \/ PfFetch
    \/ PfDaemonError
    \/ PfSleep
    \/ ReaderRun
    \/ ExecAdvance
    \/ ExecFlush
    \/ ExecStateFlush
    \/ ExecRollback
    \/ ExecRollbackState
    \/ BpLoopTop
    \/ BpFirstCaughtUpLock
    \/ BpAfterFirstCaughtUp
    \/ BpTakeBlocks
    \/ BpAdvance
    \/ BpAfterAdvance
    \/ BpFlushLock
    \/ BpAfterFlush
    \/ BpBatchDone
    \/ BpEsSynced
    \/ BpEsLock
    \/ BpAfterEs
    \/ BpBatchEnd
    \/ BpReorgCount
    \/ BpBackup
    \/ BpBackupLock
    \/ BpAfterBackup
    \/ BpBackupClear
    \/ BpBackupSynced
    \/ BpReorgDone
    \/ BpResetHeight
    \/ BpResetDone
    \/ Cancel
    \/ Close

schedAll == <<chainVars, schedVars>>

SpecSched == SchedInit /\ [][SchedNext]_schedAll

\* the steps of each task and of the executor threads; the event loop and
\* the threads keep running, so each of them is taken if it stays enabled
PfSteps == PfWake \/ PfAcquire \/ PfFetch \/ PfSleep

\* a function of the chain executor has started and not yet returned
ExecBusy == exec.st \in {"running", "rolled_back"}

\* the thread of the chain executor takes the function it runs one step
\* further: the steps of Next that change exec while a function runs are
\* ExecAdvance, ExecFlush, ExecStateFlush, ExecRollback, ExecRollbackState
ExecStep ==
    /\ ExecBusy
    /\ \E st \in {"rolled_back", "done", "error"} : exec' = [exec EXCEPT !.st = st]

BpSteps ==
    \/ BpLoopTop \/ BpFirstCaughtUpLock \/ BpAfterFirstCaughtUp \/ BpTakeBlocks
    \/ BpAdvance \/ BpAfterAdvance \/ BpFlushLock \/ BpAfterFlush \/ BpBatchDone
    \/ BpEsSynced \/ BpEsLock \/ BpAfterEs \/ BpBatchEnd \/ BpReorgCount \/ BpBackup
    \/ BpBackupLock \/ BpAfterBackup \/ BpBackupClear \/ BpBackupSynced \/ BpReorgDone
    \/ BpResetHeight \/ BpResetDone

SpecSchedFair ==
    /\ SchedInit
    /\ [][SchedNext]_schedAll
    /\ WF_schedAll(PfSteps)
    /\ WF_exec(ExecStep)
    /\ WF_schedAll(ReaderRun)
    /\ WF_schedAll(BpSteps)
    /\ WF_schedAll(Close)

\* ------------------------------------------------------------------------
\* Claims C1 - C3: rollback and the undo window
\* ------------------------------------------------------------------------

\* the key-value store without the DB-state record
Content(store) == Restrict(store, DOMAIN store \ {DbStateKey})

\* the last completed steps were an advance_block, its flush, and one backup_block
OneBlockUndone == pc = "idle" /\ run.bk = 1 /\ run.adv >= 1

\* C1 as stated: after applying block h (advance_block, flush) and backing it
\* up, the key-value state equals the state before block h was applied.
C1_KvBitwiseEqual == OneBlockUndone => kv = snap[height + 1].kv

\* C1 amended: after applying block h and backing it up, every entry of the
\* key-value store other than the DB-state record equals its value before
\* block h was applied, and the DB-state record again holds the former
\* db_height, db_tx_count and db_tip.
C1_RollbackRestoresContent ==
    OneBlockUndone =>
        /\ Content(kv) = Content(snap[height + 1].kv)
        /\ kv[DbStateKey].db_height = snap[height + 1].kv[DbStateKey].db_height
        /\ kv[DbStateKey].db_tx_count = snap[height + 1].kv[DbStateKey].db_tx_count
        /\ kv[DbStateKey].db_tip = snap[height + 1].kv[DbStateKey].db_tip

\* a block that spent an output of its parent and created outputs was
\* applied, flushed with an undo record, and backed up
C1_Witness ==
    /\ OneBlockUndone
    /\ saved[height + 1]
    /\ Len(snap[height + 1].block.transactions) = 2
    /\ snap[height + 1].block.transactions[2].inputs[1].prev_hash[1] = tip

\* N advances (each flushed) were followed by N backups, N >= 1
RangeUndone == pc = "idle" /\ run.bk >= 1 /\ run.bk <= run.adv

CursorsRestored ==
    /\ height = snap[height + 1].height
    /\ tx_count = snap[height + 1].tx_count
    /\ tip = snap[height + 1].tip
    /\ db.tx_counts = snap[height + 1].tx_counts
    /\ db.headers = snap[height + 1].headers
    /\ db.db_height = snap[height + 1].db_height
    /\ db.db_tx_count = snap[height + 1].db_tx_count
    /\ db.db_tip = snap[height + 1].db_tip

\* C2 as stated: after N advances and N backups the DB state and the
\* in-memory cursors equal their values before the first of the N blocks.
C2_RangeBitwiseEqual ==
    RangeUndone => (kv = snap[height + 1].kv /\ CursorsRestored)

\* C2 amended: after N >= 1 advances (each flushed) and N backups, every
\* entry of the key-value store other than the DB-state record, and the
\* cursors height, tx_count, tip, db.tx_counts, db.headers, db_height,
\* db_tx_count, db_tip, equal their values before the first of the N blocks.
C2_RangeRestoresContent ==
    RangeUndone => (Content(kv) = Content(snap[height + 1].kv) /\ CursorsRestored)

\* two blocks with transactions were applied and both were undone
C2_Witness ==
    /\ pc = "idle" /\ run.bk = 2 /\ run.adv >= 2
    /\ height >= 1
    /\ Len(snap[height + 1].block.transactions) = 2
    /\ Len(snap[height + 2].block.transactions) = 2

HasUndo(h) == <<"undo", h>> \in DOMAIN kv

AfterFlush == pc \in {"flushed", "idle"}

\* C3 as stated: after every flush an undo record for a committed height h
\* exists iff db_height - h < reorg_limit.
C3_UndoIffInsideWindow ==
    AfterFlush => \A h \in 1..db.db_height : HasUndo(h) <=> (db.db_height - h < REORG_LIMIT)

\* C3 amended: after every flush an undo record for a committed height h
\* exists iff db_height - h <= reorg_limit and the daemon's cached height was
\* at most h + reorg_limit when block h was flushed.
C3_UndoIffSavedAndRecent ==
    AfterFlush => \A h \in 1..db.db_height :
        HasUndo(h) <=> (db.db_height - h <= REORG_LIMIT /\ saved[h])

\* a flush that kept the records of the window while an older record,
\* once written, has been deleted
C3_Witness ==
    /\ pc = "flushed"
    /\ db.db_height > REORG_LIMIT + 1
    /\ saved[1] /\ ~HasUndo(1)
    /\ HasUndo(db.db_height) /\ HasUndo(db.db_height - REORG_LIMIT)

\* ------------------------------------------------------------------------
\* The block processor next to the mempool refresh of the running server
\* ------------------------------------------------------------------------

MempoolNext ==
    \/ SchedDaemonMine
    \/ DaemonReorg
    \/ PfWake
    \/ PfAcquire
    \/ PfFetch
    \/ PfDaemonError
    \/ PfSleep
    \/ MpStart
    \/ MpCheckHeight
    \/ MpAcquire
    \/ MpRelease
    \/ MpSleep
    \/ ReaderRun
    \/ ExecAdvance
    \/ ExecFlush
    \/ ExecStateFlush
    \/ ExecRollback
    \/ ExecRollbackState
    \/ BpLoopTop
    \/ BpFirstCaughtUpLock
    \/ BpAfterFirstCaughtUp
    \/ BpTakeBlocks
    \/ BpAdvance
    \/ BpAfterAdvance
    \/ BpFlushLock
    \/ BpAfterFlush
    \/ BpBatchDone
    \/ BpEsSynced
    \/ BpEsLock
    \/ BpAfterEs
    \/ BpBatchEnd
    \/ BpReorgCount
    \/ BpBackup
    \/ BpBackupLock
    \/ BpAfterBackup
    \/ BpBackupClear
    \/ BpBackupSynced
    \/ BpReorgDone
    \/ BpResetHeight
    \/ BpResetDone

\* the server that has synced before: its mempool task starts as soon as the
\* processor reports that it has caught up with the daemon
MempoolInit ==
    /\ SchedInit
    /\ daemon_chain = <<>>
    /\ ~db.first_sync

SpecMempool == MempoolInit /\ [][MempoolNext]_schedAll

\* ------------------------------------------------------------------------
\* Claims C4 - C7: the state lock, the announcement of blocks, shutdown
\* ------------------------------------------------------------------------

\* advance_block, backup_block or flush is in progress
BodyInProgress ==
    \/ ExecBusy /\ exec.job \in {"advance_block", "flush", "rollback"}
    \/ pc = "bk_lock"

\* C4 as stated: state_lock is held for the whole body of every
\* advance_block, backup_block and flush, so a mempool refresh never runs
\* while one of the three is in progress.
C4_NoRefreshDuringBodies ==
    BodyInProgress => mp.pc # "locked"

\* C4 amended: state_lock is held while the function of flush, the rollback
\* function of backup_block, and the state flushes of _es_caught_up and
\* _first_caught_up run in the chain executor, so a mempool refresh never
\* holds the lock while one of them runs.
C4_LockHeldForCommitAndRollback ==
    (ExecBusy /\ exec.job \in {"flush", "rollback", "state_flush"})
        => (state_lock = "bp" /\ mp.pc # "locked")

\* the function of flush runs while the mempool refresh waits for the lock
C4_Witness ==
    /\ exec = [job |-> "flush", st |-> "running"]
    /\ mp.pc = "lock"

\* this step calls mempool.on_block
OnBlockCalled ==
    \/ mp.highest_block' # mp.highest_block
    \/ pc = "batch_end" /\ pc' = "idle" /\ caught_up

\* C5: every call of mempool.on_block(touched, H) is made when the flush of
\* block H and of every earlier block of the batch has completed: no
\* operation is staged, and the DB state record holds height H and its tip.
C5_OnBlockAfterCommit ==
    [][OnBlockCalled =>
          /\ op_stack = <<>>
          /\ bp.batch = <<>>
          /\ mp.highest_block' = height
          /\ kv[DbStateKey].db_height = height
          /\ kv[DbStateKey].db_tip = tip]_schedAll

\* the processor has announced block 2 to the mempool
C5_Witness ==
    /\ caught_up
    /\ mp.highest_block = 2
    /\ height = 2

\* the DB-state record and the rows by height agree: the store holds the
\* writes of the blocks up to db_height and of no other block
WholeBlocks(store) ==
    /\ \A h \in 0..(SchedMaxHeight + 1) :
          /\ <<"block_hash", h>> \in DOMAIN store <=> h <= store[DbStateKey].db_height
          /\ <<"tx_count", h>> \in DOMAIN store <=> h <= store[DbStateKey].db_height
    /\ store[<<"block_hash", store[DbStateKey].db_height>>] = store[DbStateKey].db_tip
    /\ store[<<"tx_count", store[DbStateKey].db_height>>] = store[DbStateKey].db_tx_count

\* the function that was running when the cancellation arrived has run to
\* its end; a rollback of a block that has no undo record ends by raising
CancelledJobFinished ==
    (top.cancelled_in.st \in {"running", "rolled_back"}) =>
        CASE top.cancelled_in.job = "flush" ->
                 kv[DbStateKey].db_height = top.cancelled_in.height
          [] top.cancelled_in.job = "rollback" ->
                 /\ <<"undo", top.cancelled_in.height + 1>> \notin DOMAIN kv
                 /\ \/ kv[DbStateKey].db_height = top.cancelled_in.height
                    \/ exec = [job |-> "rollback", st |-> "error"]
                    \/ pc = "fatal"
          [] top.cancelled_in.job = "advance_block" ->
                 /\ height = top.cancelled_in.height + 1
                 /\ kv[DbStateKey].db_height = top.cancelled_in.height
          [] OTHER -> TRUE

\* C6: when the DB is closed no function is running in either executor,
\* the function that was running when the cancellation arrived has run to
\* its end, and the store holds the writes of a whole number of blocks.
C6_ClosedAfterExecutors ==
    (~top.db_open) =>
        /\ ~ExecBusy
        /\ reader # "running"
        /\ CancelledJobFinished
        /\ WholeBlocks(kv)

\* the DB was closed after a cancellation that arrived while the rollback
\* function had written its first batch
C6_Witness ==
    /\ ~top.db_open
    /\ top.cancelled_in.job = "rollback"
    /\ top.cancelled_in.st = "rolled_back"

\* C7 as stated: once processing has raised an error other than
\* DaemonError, fetch_and_process_blocks eventually shuts down and closes
\* the DB.
C7_ErrorLeadsToShutdown == (pc = "fatal") ~> (top.pc = "closed")

\* ------------------------------------------------------------------------
\* Specification of the claimtrie engine: blocks that carry one transaction
\* with claim_name, update_claim and support_claim outputs
\* ------------------------------------------------------------------------

\* the names claimed
ClaimNames == {"x"}
\* the amounts of the claim and support outputs
ClaimAmounts == {1, 2}
\* highest block height of this layer
MaxClaimHeight == 4
\* the number of claim_name outputs and of support_claim outputs of a chain
MaxClaims == 3
MaxSupports == 1

\* the number of outputs of kind `kind` in the transactions the store holds
OutputsMade(kind) ==
    Cardinality({k \in Rows(kv, "tx") :
                    \E i \in 1..Len(kv[k].outputs) : kv[k].outputs[i].script.kind = kind})

\* the unspent outputs that carry a claim or a support
ClaimTxos ==
    {<<k[2], k[3]>> : k \in Rows(kv, "txo_to_claim") \cup Rows(kv, "support_to_claim")}

TxIn(txo) == [prev_hash |-> kv[<<"tx_hash", txo[1]>>], prev_idx |-> txo[2]]

TxOut(amount, script) == [hashX |-> "c", value |-> amount, script |-> script]

\* the output of a transaction that spends the output `spent` (<<>>: none):
\* a new claim, an update of the claim it spends, a support of a claim of
\* the store, or a payment
ClaimOutputs(spent) ==
    {TxOut(a, Script("claim_name", n, -1)) :
        a \in {b \in ClaimAmounts : OutputsMade("claim_name") < MaxClaims}, n \in ClaimNames}
    \cup {TxOut(a, Script("update_claim", kv[<<"txo_to_claim", t[1], t[2]>>].name,
                          kv[<<"txo_to_claim", t[1], t[2]>>].claim_hash)) :
             a \in ClaimAmounts,
             t \in {u \in {spent} \ {<<>>} : <<"txo_to_claim", u[1], u[2]>> \in DOMAIN kv}}
    \cup {TxOut(a, Script("support_claim", None, k[2])) :
             a \in {b \in ClaimAmounts : OutputsMade("support_claim") < MaxSupports},
             k \in Rows(kv, "claim_to_txo")}
    \cup {TxOut(1, PayScript) : t \in {spent} \ {<<>>}}

\* the transactions a block of this layer can carry besides its coinbase:
\* none, or one of at most one input and one output
ClaimTxs ==
    {[inputs |-> <<>>, outputs |-> <<>>]}
    \cup UNION {{[inputs |-> IF t = <<>> THEN <<>> ELSE <<TxIn(t)>>, outputs |-> <<o>>] :
                    o \in ClaimOutputs(t)} : t \in ClaimTxos \cup {<<>>}}

\* the block of the transaction tx on top of the tip
ClaimBlock(tx) ==
    [header |-> [hash |-> Append(tip, tx), prev |-> tip],
     transactions |->
        IF tx.outputs = <<>> THEN <<CoinbaseTx(Append(tip, tx))>>
        ELSE <<CoinbaseTx(Append(tip, tx)),
               [hash |-> <<Append(tip, tx), 1>>, inputs |-> tx.inputs,
                outputs |-> tx.outputs]>>]

\* a DB holding genesis, after the first sync, and a daemon MaxClaimHeight
\* blocks ahead
ClaimInit ==
    /\ height = 0
    /\ tip = GENESIS_HASH
    /\ tx_count = 0
    /\ db = InitDb(FALSE)
    /\ kv = InitKv(FALSE)
    /\ op_stack = <<>>
    /\ staging = EmptyStaging
    /\ touched_hashXs = {}
    /\ daemon_height = MaxClaimHeight
    /\ caught_up = TRUE
    /\ pc = "idle"
    /\ snap = <<>>
    /\ saved = <<>>
    /\ run = [adv |-> 0, bk |-> 0]
    /\ daemon_chain = <<>>
    /\ pf = None /\ bp = None /\ mp = None /\ state_lock = None
    /\ exec = None /\ reader = None /\ top = None

ClaimAdvance == \E tx \in ClaimTxs : AdvanceBlock(ClaimBlock(tx))

ClaimNext ==
    \/ ClaimAdvance /\ UNCHANGED schedVars
    \/ Flush /\ UNCHANGED schedVars

SpecClaim == ClaimInit /\ [][ClaimNext]_vars

\* ------------------------------------------------------------------------
\* Claims C8 - C10: the controlling claim, the takeover records and the
\* effective_amount index, read from the committed store
\* ------------------------------------------------------------------------

\* a block has been committed and nothing is staged
Committed == pc = "flushed" /\ op_stack = <<>>

\* the live claims: the claims with an unspent, unexpired output
LiveClaims == {k[2] : k \in Rows(kv, "claim_to_txo")}

LiveClaimsOf(name) == {c \in LiveClaims : kv[<<"claim_to_txo", c>>].name = name}

\* the activation height of the output of a live claim has been reached
IsActivated(c) ==
    LET claim == kv[<<"claim_to_txo", c>>]
        activation == get_activation(kv, ACTIVATED_CLAIM_TXO_TYPE, claim.tx_num,
                                     claim.position)
    IN 0 <= activation /\ activation <= height

\* the supports of the claim whose activation height has been reached
ActiveSupports(c) ==
    {k \in Rows(kv, "claim_to_support") :
        /\ k[2] = c
        /\ get_activation(kv, ACTIVATED_SUPPORT_TXO_TYPE, k[3], k[4]) >= 0
        /\ get_activation(kv, ACTIVATED_SUPPORT_TXO_TYPE, k[3], k[4]) <= height}

\* claim amount plus supports active at the current height; 0 for a claim
\* that is not live
EffectiveAmount(c) ==
    IF c \in LiveClaims
    THEN kv[<<"claim_to_txo", c>>].amount + SumRows(kv, ActiveSupports(c))
    ELSE 0

\* C8: after every committed block, the effective amount of the controlling
\* claim of a name is at least the effective amount of every other live
\* claim of the name whose activation height has been reached.
C8_ControllingIsMaximal ==
    Committed =>
        \A name \in ClaimNames :
            has_controlling_claim(kv, name) =>
                \A c \in LiveClaimsOf(name) :
                    (c # get_controlling_claim(kv, name).claim_hash /\ IsActivated(c)) =>
                        EffectiveAmount(get_controlling_claim(kv, name).claim_hash)
                            >= EffectiveAmount(c)

\* C9: after every committed block, claim_takeover has an entry for each
\* name with a live activated claim and none for a name without a live
\* claim.
C9_TakeoverIffLiveClaim ==
    Committed =>
        \A name \in ClaimNames :
            /\ (\E c \in LiveClaimsOf(name) : IsActivated(c)) =>
                   has_controlling_claim(kv, name)
            /\ LiveClaimsOf(name) = {} => ~has_controlling_claim(kv, name)

\* the block just committed spent the last claim of a name without a
\* replacement, and the name has no takeover record
C9_Witness ==
    /\ Committed
    /\ Len(kv[<<"block_txs", height>>]) = 2
    /\ kv[<<"tx", kv[<<"block_txs", height>>][2]>>].inputs # <<>>
    /\ kv[<<"touched_or_deleted", height>>].deleted_claims # {}
    /\ \E name \in ClaimNames :
           LiveClaimsOf(name) = {} /\ ~has_controlling_claim(kv, name)

\* the entries of the effective_amount index for the claim
IndexEntries(c) == {k \in Rows(kv, "effective_amount") : kv[k] = c}

\* C10: after every committed block, the effective_amount index holds
\* exactly one entry for each live claim, keyed by the current effective
\* amount of the claim, and no entry for a claim that is not live.
C10_IndexMatchesLiveClaims ==
    Committed =>
        /\ \A c \in LiveClaims :
               /\ Cardinality(IndexEntries(c)) = 1
               /\ \A k \in IndexEntries(c) :
                      /\ k[2] = kv[<<"claim_to_txo", c>>].name
                      /\ k[3] = EffectiveAmount(c)
        /\ \A k \in Rows(kv, "effective_amount") : kv[k] \in LiveClaims

\* ------------------------------------------------------------------------
\* Claims C11 - C20
\* ------------------------------------------------------------------------

\* the number of transactions of the block at height h, from its header
TxsOfBlockAt(h) == Len(BlockTxs(header_hash(db.headers[h + 1])))

DaemonReorgLonger ==
    /\ Len(daemon_chain) = SchedMaxHeight
    /\ \A i \in 1..Len(daemon_chain) : daemon_chain[i] = 1
    /\ \E k \in 1..Len(daemon_chain) :
          daemon_chain' = [i \in 1..(Len(daemon_chain) + 1) |-> IF i = k THEN 2 ELSE 1]
    /\ UNCHANGED <<chainData, daemon_height, caught_up, pc, history,
                   pf, bp, mp, state_lock, exec, reader, top>>

ReorgNext ==
    \/ DaemonReorgLonger
    \/ PfWake
    \/ PfAcquire
    \/ PfFetch
    \/ PfDaemonError
    \/ PfSleep
    \/ ReaderRun
    \/ ExecAdvance
    \/ ExecFlush
    \/ ExecStateFlush
    \/ ExecRollback
    \/ ExecRollbackState
    \/ BpLoopTop
    \/ BpFirstCaughtUpLock
    \/ BpAfterFirstCaughtUp
    \/ BpTakeBlocks
    \/ BpAdvance
    \/ BpAfterAdvance
    \/ BpFlushLock
    \/ BpAfterFlush
    \/ BpBatchDone
    \/ BpEsSynced
    \/ BpEsLock
    \/ BpAfterEs
    \/ BpBatchEnd
    \/ BpReorgCount
    \/ BpBackup
    \/ BpBackupLock
    \/ BpAfterBackup
    \/ BpBackupClear
    \/ BpBackupSynced
    \/ BpReorgDone
    \/ BpResetHeight
    \/ BpResetDone

\* the server that has synced before, next to a daemon that holds a chain
\* of SchedMaxHeight blocks
ReorgInit ==
    /\ SchedInit
    /\ Len(daemon_chain) = SchedMaxHeight
    /\ ~db.first_sync

SpecReorg == ReorgInit /\ [][ReorgNext]_schedAll

\* C13 as stated: handling one reorg calls backup_block at most REORG_LIMIT
\* times.
C13_AtMostReorgLimitBackups == run.bk <= REORG_LIMIT

\* ---- the notifications of the mempool under any order of its calls ----

\* greatest height of a call of on_mempool or on_block
MaxNotifyHeight == 2

\* no notification was made by the last call
NotNotified == [height |-> -1, new_touched |-> {}, touched |-> {}]

\* MemPool.start(height, session_manager): notify_sessions(height, set(), set())
start(m, h) ==
    [m EXCEPT !.highest_block = h,
              !.notified = [height |-> h, new_touched |-> {}, touched |-> {}]]

\* the mempool the server has started at height h; recorded_mp and
\* recorded_bp are the heights on_mempool and on_block have been called with
StartedMempool(h) ==
    start([pc |-> "start", height |-> h, touched_mp |-> <<>>, touched_bp |-> <<>>,
           highest_block |-> -1, notified |-> NotNotified,
           recorded_mp |-> {}, recorded_bp |-> {}], h)

NotifyInit ==
    /\ height = 0
    /\ tip = GENESIS_HASH
    /\ tx_count = 0
    /\ db = InitDb(FALSE)
    /\ kv = InitKv(FALSE)
    /\ op_stack = <<>>
    /\ staging = EmptyStaging
    /\ touched_hashXs = {}
    /\ daemon_height = 0
    /\ caught_up = TRUE
    /\ pc = "idle"
    /\ snap = <<>>
    /\ saved = <<>>
    /\ run = [adv |-> 0, bk |-> 0]
    /\ daemon_chain = <<>>
    /\ \E h \in 0..MaxNotifyHeight : mp = StartedMempool(h)
    /\ pf = None /\ bp = None /\ state_lock = None
    /\ exec = None /\ reader = None /\ top = None

\* _refresh_hashes calls on_mempool(touched, new_touched, height)
CallOnMempool ==
    /\ \E h \in 0..MaxNotifyHeight :
          mp' = [on_mempool([mp EXCEPT !.notified = NotNotified], {"m"}, {"m"}, h)
                    EXCEPT !.recorded_mp = @ \cup {h}]
    /\ UNCHANGED <<chainVars, daemon_chain, pf, bp, state_lock, exec, reader, top>>

\* check_and_advance_blocks calls on_block(touched, height)
CallOnBlock ==
    /\ \E h \in 0..MaxNotifyHeight :
          mp' = [on_block([mp EXCEPT !.notified = NotNotified], {"b"}, h)
                    EXCEPT !.recorded_bp = @ \cup {h}]
    /\ UNCHANGED <<chainVars, daemon_chain, pf, bp, state_lock, exec, reader, top>>

NotifyNext ==
    \/ CallOnMempool
    \/ CallOnBlock

SpecNotify == NotifyInit /\ [][NotifyNext]_vars

\* the last call of on_mempool or on_block has called notify_sessions
MaybeNotified ==
    mp.notified.height >= 0 /\ (mp.recorded_mp \cup mp.recorded_bp) # {}

\* C14 as stated: _maybe_notify calls notify_sessions for a height H only
\* when a block touched-set and a mempool touched-set for H or a prior
\* height have been recorded by on_block and on_mempool.
C14_NotifiedOnlyWithBothSets ==
    MaybeNotified =>
        /\ \E h \in mp.recorded_bp : h <= mp.notified.height
        /\ \E h \in mp.recorded_mp : h <= mp.notified.height

\* C14 amended: _maybe_notify calls notify_sessions for a height H only
\* when on_mempool has recorded a touched-set for H and either on_block has
\* recorded one for H too or H is the highest block height (the height of
\* start or of the last on_block).
C14_NotifiedAtBlockOrTip ==
    MaybeNotified =>
        /\ mp.notified.height \in mp.recorded_mp
        /\ \/ mp.notified.height \in mp.recorded_bp
           \/ mp.notified.height = mp.highest_block

\* a notification for a height above the one the mempool was started at,
\* which carries the touched-sets of the mempool and of the blocks
C14_Witness ==
    /\ MaybeNotified
    /\ mp.notified.height > mp.height
    /\ mp.notified.touched = {"m", "b"}

\* ---- the prefetcher: reset_height, get_prefetched_blocks, DaemonError ----

\* the height of a block of the cache (a block is the path to it)
BlockHeight(block) == Len(block)

\* the cache holds blocks of consecutive heights that end at fetched_height
CacheEndsAtFetchedHeight ==
    \A i \in 1..Len(pf.blocks) :
        BlockHeight(pf.blocks[i]) = pf.fetched_height - Len(pf.blocks) + i

\* between two batches the cache starts with the successor of the
\* processor's block
CacheStartsAboveHeight ==
    (pc \in {"idle", "await_blocks"} /\ pf.blocks # <<>>)
        => BlockHeight(pf.blocks[1]) = height + 1

\* this step is the body of reset_height under the semaphore
ResetStep == pc = "reset_semaphore" /\ pc' = "reset_height"

\* C15: reset_height(h) takes effect only when no prefetch batch is in
\* flight; when it has run the cache is empty (cache_size 0) and
\* fetched_height = h; and the cache never holds a block fetched before a
\* reset: its blocks are of consecutive heights ending at fetched_height and,
\* between two batches of the processor, starting at height + 1.
C15_ResetExcludesBatch ==
    /\ [](CacheEndsAtFetchedHeight /\ CacheStartsAboveHeight)
    /\ [][ResetStep =>
             /\ pf.pc # "fetch"
             /\ pf'.blocks = <<>>
             /\ pf'.fetched_height = height]_schedAll

\* reset_height has been called while a batch is in flight and waits for
\* the semaphore the batch holds
C15_Witness ==
    /\ pc = "reset_semaphore"
    /\ pf.pc = "fetch"
    /\ pf.semaphore = "pf"

\* this step is get_prefetched_blocks, called by _process_prefetched_blocks
TakeStep == pc = "await_blocks" /\ pc' # "await_blocks"

\* C16: every list get_prefetched_blocks returns continues the lists
\* returned since the last reset_height: the processor is at the height of
\* the last block it was handed (the reset height when it was handed none),
\* and the list holds the blocks of the heights height + 1, height + 2, ...
\* in this order, whether or not a batch is in flight; the call returns the
\* whole cache, leaves it empty and sets the refill event.
C16_HandedBlocksAreConsecutive ==
    [][TakeStep =>
          /\ \A i \in 1..Len(pf.blocks) : BlockHeight(pf.blocks[i]) = height + i
          /\ pc' = "adv_next" => bp'.batch = pf.blocks
          /\ pf'.blocks = <<>>
          /\ pf'.refill_event]_schedAll

\* a second list has been handed to the processor and the batch that
\* continues it is in flight
C16_Witness ==
    /\ pc = "adv_next"
    /\ bp.batch # <<>>
    /\ BlockHeight(bp.batch[1]) >= 2
    /\ BlockHeight(bp.batch[1]) = height + 1
    /\ pf.pc = "fetch"
    /\ pf.first = BlockHeight(Last(bp.batch)) + 1

\* this step is a batch of _prefetch_blocks ended by a DaemonError: the
\* batch is over and nothing was fetched
DaemonErrorStep ==
    /\ pf.pc = "fetch"
    /\ pf'.pc # "fetch"
    /\ pf'.fetched_height = pf.fetched_height

\* C17: a DaemonError inside a prefetch batch leaves main_loop running, and
\* main_loop sleeps polling_delay before it prefetches again.
C17_DaemonErrorThenSleep ==
    [][DaemonErrorStep =>
          /\ pf'.pc \in {"wait_refill", "semaphore", "fetch", "sleep"}
          /\ pf'.semaphore = "free"
          /\ pf'.pc = "sleep"]_schedAll

\* ---- blocks whose inputs refer to outputs that do not exist ----

\* the blocks a daemon can return as the successor of `parent` when nothing
\* is assumed about it: variant 3 after a parent of variant 2 spends an
\* output the parent has spent itself, and variant 3 on genesis spends an
\* output of a transaction that does not exist
AnyBlocks(parent) == {Block(Append(parent, v)) : v \in Variants}

SpendNext ==
    \/ \E block \in AnyBlocks(tip) : AdvanceBlock(block) /\ UNCHANGED schedVars
    \/ Flush /\ UNCHANGED schedVars
    \/ EndBatch /\ UNCHANGED schedVars
    \/ FirstCaughtUp /\ UNCHANGED schedVars
    \/ BackupBlock /\ UNCHANGED schedVars
    \/ DaemonMine /\ UNCHANGED schedVars

SpecSpend == Init /\ [][SpendNext]_vars

\* the DB `store` holds the hashX_utxo and utxo rows of the output txin spends
OutputInDb(store, txin) ==
    LET hkey == <<"hashX_utxo", Prefix4(txin.prev_hash),
                  get_tx_num(store, txin.prev_hash), txin.prev_idx>>
    IN /\ hkey \in DOMAIN store
       /\ <<"utxo", store[hkey], get_tx_num(store, txin.prev_hash), txin.prev_idx>>
              \in DOMAIN store

\* a transaction of the block before its i-th one has made the output
OutputStagedBefore(block, i, txin) ==
    \E j \in 1..(i - 1) :
        /\ block.transactions[j].hash = txin.prev_hash
        /\ txin.prev_idx < Len(block.transactions[j].outputs)
        /\ block.transactions[j].outputs[txin.prev_idx + 1].hashX # None

\* a non-coinbase input of the block refers to an output that is neither
\* staged in the block nor in the DB
HasMissingInput(block, store) ==
    \E i \in 2..Len(block.transactions) :
        \E k \in 1..Len(block.transactions[i].inputs) :
            /\ ~OutputInDb(store, block.transactions[i].inputs[k])
            /\ ~OutputStagedBefore(block, i, block.transactions[i].inputs[k])

\* C18: advance_block does not go through with a block that has a
\* non-coinbase input whose output is neither staged in the block nor in
\* the DB: no such block is ever the last block advanced.
C18_MissingOutputIsChainError ==
    (pc = "staged" /\ snap # <<>>)
        => ~HasMissingInput(Last(snap).block, Last(snap).kv)

\* ---- clear_after_advance_or_reorg ----

\* the processor is between the start of an advance_block and the end of
\* the flush that follows it (or has died there)
StagingInUse == pc \in {"adv_wait", "flush_lock", "flush_wait", "fatal"}

\* the staging collections are empty except while a block is advanced and
\* flushed, and they are empty as soon as the function of flush() is done
StagingEmptyOutsideBlocks ==
    /\ ~StagingInUse => staging = EmptyStaging
    /\ exec = [job |-> "flush", st |-> "done"] => staging = EmptyStaging

\* this step is the call of clear_after_advance_or_reorg in flush()
FlushClearStep ==
    /\ exec = [job |-> "flush", st |-> "running"]
    /\ exec' = [job |-> "flush", st |-> "done"]

\* this step is the call of clear_after_advance_or_reorg in backup_block
BackupClearStep == pc = "bk_clear" /\ pc' # "bk_clear"

\* C20 as first stated: after every flush and every backup_block the
\* staging collections are empty, and both empty them while state_lock is
\* held.
C20_ClearedUnderStateLock ==
    /\ []StagingEmptyOutsideBlocks
    /\ [][(FlushClearStep \/ BackupClearStep) => state_lock = "bp"]_schedAll

\* C20: after every flush and every backup_block the staging collections
\* are empty. Collections that hold something are only ever emptied by
\* flush(), inside the function that runs under state_lock; backup_block
\* calls clear_after_advance_or_reorg after state_lock has been released,
\* and finds the collections empty already.
C20_ClearedByFlushUnderLock ==
    /\ []StagingEmptyOutsideBlocks
    /\ [][(staging # EmptyStaging /\ staging' = EmptyStaging) =>
             /\ FlushClearStep
             /\ state_lock = "bp"
             /\ state_lock' = "bp"]_schedAll
    /\ [][BackupClearStep =>
             /\ state_lock # "bp"
             /\ staging = EmptyStaging
             /\ staging' = EmptyStaging]_schedAll

\* a block has been rolled back, backup_block has not cleared yet, and the
\* mempool refresh holds state_lock
C20_Witness ==
    /\ pc = "bk_clear"
    /\ state_lock = "mp"
    /\ run.bk >= 1

\* ------------------------------------------------------------------------
\* Channels and signed claims: blocks of up to two transactions that make,
\* update and abandon one channel name and one stream name
\* ------------------------------------------------------------------------

\* the name of the streams
StreamNames == {"s"}
\* highest block height of this layer
MaxChannelHeight == 5
\* the number of transactions of a chain besides the coinbase transactions
MaxChannelTxs == 3
\* the number of claim_name outputs for channels and for streams of a chain
MaxChannels == 1
MaxStreams == 1
\* the key of the channels, and a key no channel has
ChannelKey == "k"
OtherKey == "j"

\* the number of claim_name outputs for a name of `names` in the
\* transactions the store holds
NamesMade(names) ==
    Cardinality({k \in Rows(kv, "tx") :
                    \E i \in 1..Len(kv[k].outputs) :
                        /\ kv[k].outputs[i].script.kind = "claim_name"
                        /\ kv[k].outputs[i].script.name \in names})

\* the unspent claim outputs of the store
ChannelTxos == {<<k[2], k[3]>> : k \in Rows(kv, "txo_to_claim")}

\* the channels a claim can name: the channels of the store
SigningChannels ==
    {k[2] : k \in {r \in Rows(kv, "claim_to_txo") : IsChannelName(kv[r].name)}}

\* no signature, or a signature naming a channel, made with its key or with
\* another key
Signatures ==
    {<<NoChannel, None>>} \cup (SigningChannels \X {ChannelKey, OtherKey})

\* the output of a transaction that spends the output `spent` (<<>>: none):
\* a new channel, a new stream, an update of the claim it spends, or a
\* payment
ChannelOutputs(spent) ==
    {TxOut(1, SignedScript("claim_name", n, -1, NoChannel, None, ChannelKey)) :
        n \in {m \in ChannelNames : NamesMade(ChannelNames) < MaxChannels}}
    \cup {TxOut(1, SignedScript("claim_name", n, -1, sig[1], sig[2], None)) :
             n \in {m \in StreamNames : NamesMade(StreamNames) < MaxStreams},
             sig \in Signatures}
    \cup {TxOut(1, SignedScript("update_claim", kv[<<"txo_to_claim", t[1], t[2]>>].name,
                                kv[<<"txo_to_claim", t[1], t[2]>>].claim_hash,
                                sig[1], sig[2],
                                IF IsChannelName(kv[<<"txo_to_claim", t[1], t[2]>>].name)
                                THEN ChannelKey ELSE None)) :
             t \in {spent} \ {<<>>},
             sig \in {g \in Signatures :
                         IsChannelName(kv[<<"txo_to_claim", spent[1], spent[2]>>].name)
                             => g = <<NoChannel, None>>}}
    \cup {TxOut(1, PayScript) : t \in {spent} \ {<<>>}}

\* a transaction of at most one input and of one output
ChannelTxs ==
    UNION {{[inputs |-> IF t = <<>> THEN <<>> ELSE <<TxIn(t)>>, outputs |-> <<o>>] :
               o \in ChannelOutputs(t)} : t \in ChannelTxos \cup {<<>>}}

\* the transactions the store holds besides the coinbase transactions
TxsMade == Cardinality(Rows(kv, "tx")) - height

\* the transactions of a block besides its coinbase: none, one, or two that
\* do not spend the same output
ChannelBlockTxs ==
    {<<>>}
    \cup {<<t>> : t \in {u \in ChannelTxs : TxsMade + 1 <= MaxChannelTxs}}
    \cup {p \in {<<t, u>> : t \in ChannelTxs, u \in ChannelTxs} :
              /\ TxsMade + 2 <= MaxChannelTxs
              /\ p[2].inputs = <<>> \/ p[2].inputs # p[1].inputs}

\* the block of the transactions txs on top of the tip
ChannelBlock(txs) ==
    [header |-> [hash |-> Append(tip, txs), prev |-> tip],
     transactions |->
        <<CoinbaseTx(Append(tip, txs))>> \o
        [i \in 1..Len(txs) |->
            [hash |-> <<Append(tip, txs), i>>, inputs |-> txs[i].inputs,
             outputs |-> txs[i].outputs]]]

ChannelInit ==
    /\ height = 0
    /\ tip = GENESIS_HASH
    /\ tx_count = 0
    /\ db = InitDb(FALSE)
    /\ kv = InitKv(FALSE)
    /\ op_stack = <<>>
    /\ staging = EmptyStaging
    /\ touched_hashXs = {}
    /\ daemon_height = MaxChannelHeight
    /\ caught_up = TRUE
    /\ pc = "idle"
    /\ snap = <<>>
    /\ saved = <<>>
    /\ run = [adv |-> 0, bk |-> 0]
    /\ daemon_chain = <<>>
    /\ pf = None /\ bp = None /\ mp = None /\ state_lock = None
    /\ exec = None /\ reader = None /\ top = None

ChannelAdvance == \E txs \in ChannelBlockTxs : AdvanceBlock(ChannelBlock(txs))

ChannelNext ==
    \/ ChannelAdvance /\ UNCHANGED schedVars
    \/ Flush /\ UNCHANGED schedVars

SpecChannel == ChannelInit /\ [][ChannelNext]_vars

\* the claim_to_txo and txo_to_claim rows of the store name each other
ClaimRowsInverse(store) ==
    /\ \A k \in Rows(store, "claim_to_txo") :
          /\ <<"txo_to_claim", store[k].tx_num, store[k].position>> \in DOMAIN store
          /\ store[<<"txo_to_claim", store[k].tx_num, store[k].position>>].claim_hash = k[2]
    /\ \A k \in Rows(store, "txo_to_claim") :
          /\ <<"claim_to_txo", store[k].claim_hash>> \in DOMAIN store
          /\ store[<<"claim_to_txo", store[k].claim_hash>>].tx_num = k[2]
          /\ store[<<"claim_to_txo", store[k].claim_hash>>].position = k[3]

\* C11: in every committed state claim_to_txo and txo_to_claim are exact
\* inverses: the row of a claim names a (tx_num, position) whose row names
\* the claim, and the other way round, so a live claim has exactly one txo.
C11_ClaimTxoRowsAreInverse == ClaimRowsInverse(kv)

\* a claim whose row kept its txo while the last block rewrote its
\* channel_signature_is_valid from true to false
SignatureInvalidatedIn(before, after, c) ==
    /\ <<"claim_to_txo", c>> \in DOMAIN before
    /\ <<"claim_to_txo", c>> \in DOMAIN after
    /\ before[<<"claim_to_txo", c>>].channel_signature_is_valid
    /\ ~after[<<"claim_to_txo", c>>].channel_signature_is_valid
    /\ after[<<"claim_to_txo", c>>].tx_num = before[<<"claim_to_txo", c>>].tx_num

C11_Witness ==
    /\ Committed
    /\ snap # <<>>
    /\ \E c \in LiveClaims : SignatureInvalidatedIn(Last(snap).kv, kv, c)
    /\ Cardinality(Rows(kv, "txo_to_claim")) = Cardinality(LiveClaims)

\* the channels of the store `before` that a transaction of `block` spent
\* and that the store `after` no longer holds
AbandonedChannels(before, after, block) ==
    {k[2] : k \in {r \in Rows(before, "claim_to_txo") :
        /\ IsChannelName(before[r].name)
        /\ r \notin DOMAIN after
        /\ \E i \in 1..Len(block.transactions) :
              \E j \in 1..Len(block.transactions[i].inputs) :
                  /\ block.transactions[i].inputs[j].prev_hash
                         = before[<<"tx_hash", before[r].tx_num>>]
                  /\ block.transactions[i].inputs[j].prev_idx = before[r].position}}

\* the live claims of the store that the rows of the channel still name
SignedBy(store, channel) ==
    {store[k] : k \in {r \in Rows(store, "channel_to_claim") : r[2] = channel}}

\* C19: once a block that abandons a channel is committed, no live claim
\* is left with a channel_to_claim row of that channel and a
\* channel_signature_is_valid of true, whether the claim was in the store
\* before the block or was made by the block.
C19_AbandonedChannelSignsNothing ==
    (Committed /\ snap # <<>>) =>
        \A channel \in AbandonedChannels(Last(snap).kv, kv, Last(snap).block) :
            /\ SignedBy(kv, channel) = {}
            /\ \A k \in Rows(kv, "claim_to_channel") :
                  kv[k] = channel
                      => ~kv[<<"claim_to_txo", k[2]>>].channel_signature_is_valid

\* ---- the count of the blocks a reorganisation unwinds ----

\* the greatest height at which the block hash of the DB is the block hash
\* of the daemon
CommonAncestor ==
    CHOOSE a \in 0..height :
        /\ kv[<<"block_hash", a>>] = DaemonHash(a)
        /\ \A h \in (a + 1)..height : kv[<<"block_hash", h>>] # DaemonHash(h)

\* the reorg branch has counted the blocks to unwind
ReorgCountStep == pc = "reorg" /\ pc' = "bk_next"

\* C21 as stated: the reorg branch counts height - a blocks to unwind, a
\* the greatest height at which the stored block hash is the daemon's, at
\* every height, the heights below REORG_LIMIT included.
C21_CountReachesCommonAncestor ==
    [][ReorgCountStep => bp'.count = height - CommonAncestor]_schedAll

\* ------------------------------------------------------------------------
\* Claims C21 - C30: activation delays and takeovers, read from the store
\* before and after the block just committed
\* ------------------------------------------------------------------------

\* the store the block just committed was applied to
Before == Last(snap).kv

\* the claim outputs and the support outputs the block just committed made
NewClaimTxos == {k \in Rows(kv, "txo_to_claim") : k[2] >= Last(snap).tx_count}

NewSupportTxos == {k \in Rows(kv, "support_to_claim") : k[2] >= Last(snap).tx_count}

\* the controlling claim of the name before the block
ControllingBefore(name) == get_controlling_claim(Before, name)

\* claim amount plus the supports of the store active at height h
EffectiveAmountAt(store, c, h) ==
    store[<<"claim_to_txo", c>>].amount
        + SumRows(store, {k \in Rows(store, "claim_to_support") :
              /\ k[2] = c
              /\ get_activation(store, ACTIVATED_SUPPORT_TXO_TYPE, k[3], k[4]) >= 0
              /\ get_activation(store, ACTIVATED_SUPPORT_TXO_TYPE, k[3], k[4]) <= h})

\* no controlling claim, or the item belongs to the controlling claim, or
\* the controlling claim is abandoned in this block
NoDelayCase(name, c) ==
    \/ ~has_controlling_claim(Before, name)
    \/ ControllingBefore(name).claim_hash = c
    \/ ~has_claim_txo(kv, ControllingBefore(name).claim_hash)

\* the delay of the claim c staged for the name, as C24 states it
StatedDelay(name, c) ==
    IF NoDelayCase(name, c) THEN 0
    ELSE IF ~has_claim_txo(Before, c)
         THEN get_delay_for_name(height - ControllingBefore(name).height)
         ELSE IF EffectiveAmountAt(kv, c, height) >
                 EffectiveAmountAt(kv, ControllingBefore(name).claim_hash, height)
              THEN get_delay_for_name(height - ControllingBefore(name).height)
              ELSE 0

\* the claim controls the name since the block just committed
TookOverNow(name, c) ==
    /\ has_controlling_claim(kv, name)
    /\ get_controlling_claim(kv, name).claim_hash = c
    /\ get_controlling_claim(kv, name).height = height

\* C24 as stated: a claim staged at height h is activated at h + delay, with
\* delay 0 when the name has no controlling claim, when the claim is the
\* controlling claim or when the controlling claim is abandoned in the
\* block, the takeover delay for a new claim, and for an update of another
\* claim 0 unless its effective amount exceeds the controlling claim's; a
\* support is activated at h in the three cases of delay 0. (A claim that
\* takes over in the block is left to C22.)
C24_ActivationHeightOfStaged ==
    (Committed /\ snap # <<>>) =>
        /\ \A k \in NewClaimTxos :
              TookOverNow(kv[k].name, kv[k].claim_hash)
              \/ get_activation(kv, ACTIVATED_CLAIM_TXO_TYPE, k[2], k[3])
                     = height + StatedDelay(kv[k].name, kv[k].claim_hash)
        /\ \A k \in NewSupportTxos :
              (/\ has_claim_txo(kv, kv[k])
               /\ NoDelayCase(kv[<<"claim_to_txo", kv[k]>>].name, kv[k]))
                  => get_activation(kv, ACTIVATED_SUPPORT_TXO_TYPE, k[2], k[3]) = height

\* the height the output of the live claim c is activated at
ScheduledAt(store, c) ==
    get_activation(store, ACTIVATED_CLAIM_TXO_TYPE,
                   store[<<"claim_to_txo", c>>].tx_num, store[<<"claim_to_txo", c>>].position)

\* the activation of the live claim c lies in [h + 1, h + 1 + maxTakeoverDelay]
ScheduledInWindow(store, c, h) ==
    /\ ScheduledAt(store, c) >= h + 1
    /\ ScheduledAt(store, c) <= h + 1 + maxTakeoverDelay

\* the live claims of the name with a claim or support output activated at
\* the height of the block just committed
ActivatedNow(name) ==
    {kv[k].claim_hash : k \in {r \in Rows(kv, "activated") :
        /\ kv[r].height = height
        /\ kv[r].name = name
        /\ has_claim_txo(kv, kv[r].claim_hash)}}

\* the activation set of the name: the claims activated at this height and
\* the controlling claim the block found
ActivationSet(name) ==
    ActivatedNow(name) \cup
    {c \in LiveClaimsOf(name) :
        has_controlling_claim(Before, name) /\ ControllingBefore(name).claim_hash = c}

\* the block just committed wrote the takeover record of the name
TakenOverNow(name) ==
    /\ has_controlling_claim(kv, name)
    /\ get_controlling_claim(kv, name).height = height

ControllingNow(name) == get_controlling_claim(kv, name).claim_hash

\* C22 as stated, for the claim that takes over: a claim that becomes the
\* controlling claim at h while its activation is scheduled for a later
\* height has its activation rewritten to h, so the controlling claim a
\* block writes is activated at the height of the block or before.
C22_TakeoverIsActivatedNow ==
    (Committed /\ snap # <<>>) =>
        \A name \in ClaimNames :
            TakenOverNow(name) =>
                /\ ScheduledAt(kv, ControllingNow(name)) >= 0
                /\ ScheduledAt(kv, ControllingNow(name)) <= height

\* the effective amount at the height of the block just committed; 0 for a
\* claim that is not live
EffNow(c) == IF has_claim_txo(kv, c) THEN EffectiveAmountAt(kv, c, height) ELSE 0

\* the controlling claim the block found was abandoned or updated by it
ControllingTouched(name) ==
    /\ has_controlling_claim(Before, name)
    /\ \/ ~has_claim_txo(kv, ControllingBefore(name).claim_hash)
       \/ get_claim_txo(kv, ControllingBefore(name).claim_hash).tx_num
              # get_claim_txo(Before, ControllingBefore(name).claim_hash).tx_num

\* the candidates of the name: its activation set, and every claim the
\* store held for it when the controlling claim was abandoned or updated
CandidatesOf(name) ==
    ActivationSet(name) \cup
    IF ControllingTouched(name)
    THEN {c \in LiveClaimsOf(name) : has_claim_txo(Before, c)} ELSE {}

\* the candidates of greatest effective amount
Winners(name) ==
    {w \in CandidatesOf(name) :
        \A d \in CandidatesOf(name) : EffNow(d) <= EffNow(w)}

\* the block just committed rewrote the takeover record of the name
TakeoverPerformed(name) ==
    /\ has_controlling_claim(kv, name)
    /\ (has_controlling_claim(Before, name) => ControllingBefore(name) # get_controlling_claim(kv, name))

\* C23 as stated: for a name with activations in the block and a
\* controlling claim, a takeover is performed if and only if the candidate
\* of greatest effective amount differs from the controlling claim and
\* either the controlling claim was abandoned or updated in the block or the
\* winner's effective amount is greater (where several candidates share the
\* greatest amount, any of them may be the winner).
C23_TakeoverIffWinnerBeatsControlling ==
    (Committed /\ snap # <<>>) =>
        \A name \in ClaimNames :
            (ActivatedNow(name) # {} /\ has_controlling_claim(Before, name)) =>
                /\ TakeoverPerformed(name) =>
                       \E w \in Winners(name) \ {ControllingBefore(name).claim_hash} :
                           \/ ControllingTouched(name)
                           \/ EffNow(w) > EffNow(ControllingBefore(name).claim_hash)
                /\ (\E w \in Winners(name) :
                       EffNow(w) > EffNow(ControllingBefore(name).claim_hash))
                       => TakeoverPerformed(name)


\* the store block i of the run was applied to, and the store it left
StoreBefore(i) == snap[i].kv

StoreAfter(i) == IF i < Len(snap) THEN snap[i + 1].kv ELSE kv

EffIn(after, c, h) == IF has_claim_txo(after, c) THEN EffectiveAmountAt(after, c, h) ELSE 0

LiveIn(after, name) ==
    {k[2] : k \in {r \in Rows(after, "claim_to_txo") : after[r].name = name}}

\* the candidates of the name in block h: the live claims with an output
\* activated at h, the controlling claim the block found, and every claim
\* the store held when that claim was abandoned or updated in the block
CandidatesIn(before, after, h, name) ==
    {c \in LiveIn(after, name) :
        \/ \E r \in Rows(after, "activated") :
              after[r].height = h /\ after[r].name = name /\ after[r].claim_hash = c
        \/ /\ has_controlling_claim(before, name)
           /\ get_controlling_claim(before, name).claim_hash = c}
    \cup
    {c \in LiveIn(after, name) :
        /\ has_claim_txo(before, c)
        /\ has_controlling_claim(before, name)
        /\ \/ ~has_claim_txo(after, get_controlling_claim(before, name).claim_hash)
           \/ get_claim_txo(after, get_controlling_claim(before, name).claim_hash).tx_num
                  # get_claim_txo(before, get_controlling_claim(before, name).claim_hash).tx_num}

WinnersIn(before, after, h, name) ==
    {w \in CandidatesIn(before, after, h, name) :
        \A d \in CandidatesIn(before, after, h, name) : EffIn(after, d, h) <= EffIn(after, w, h)}

\* block h gave the name a controlling claim out of two or more candidates
\* of the same greatest effective amount
TieResolvedIn(before, after, h, name) ==
    /\ has_controlling_claim(after, name)
    /\ get_controlling_claim(after, name).height = h
    /\ get_controlling_claim(after, name).claim_hash \in WinnersIn(before, after, h, name)
    /\ Cardinality(WinnersIn(before, after, h, name)) >= 2

\* the tie of block i did not go to the greatest ClaimHash
NotToGreatest(i, name) ==
    /\ TieResolvedIn(StoreBefore(i), StoreAfter(i), i, name)
    /\ \E w \in WinnersIn(StoreBefore(i), StoreAfter(i), i, name) :
           w > get_controlling_claim(StoreAfter(i), name).claim_hash

\* the tie of block i did not go to the least ClaimHash
NotToLeast(i, name) ==
    /\ TieResolvedIn(StoreBefore(i), StoreAfter(i), i, name)
    /\ \E w \in WinnersIn(StoreBefore(i), StoreAfter(i), i, name) :
           w < get_controlling_claim(StoreAfter(i), name).claim_hash

\* C25 as stated: among candidates of the same greatest effective amount the
\* winner is fixed by the comparison of the ClaimHashes alone, whatever the
\* order the candidates were staged or activated in: over the blocks of a
\* chain either every tie goes to the greatest ClaimHash or every tie goes
\* to the least.
C25_TieBrokenByClaimHash ==
    Committed =>
        \A name \in ClaimNames :
            ~ \E i, j \in 1..Len(snap) : NotToGreatest(i, name) /\ NotToLeast(j, name)

\* the claims whose expiration the store held for the height of the block
\* just committed
ExpiredNow ==
    {Before[k].claim_hash : k \in {r \in Rows(Before, "claim_expiration") : r[2] = height}}

\* the channel_count of the channel in the store; 0 without a row
ChannelCountIn(store, channel) ==
    IF <<"channel_count", channel>> \in DOMAIN store
    THEN store[<<"channel_count", channel>>] ELSE 0

\* the claims the channel signed whose signature the block invalidated
InvalidatedOf(channel) ==
    {c \in LiveClaims :
        /\ SignatureInvalidatedIn(Before, kv, c)
        /\ \E k \in Rows(Before, "claim_to_channel") : k[2] = c /\ Before[k] = channel}

\* C26: in the expiry pass _abandon_claim takes effect once per expired
\* claim: the count of an expired channel goes down by one for each claim
\* whose signature its expiry invalidated, and by no more.
C26_ExpiredAbandonedOnce ==
    (Committed /\ snap # <<>>) =>
        \A channel \in ExpiredNow :
            ChannelCountIn(kv, channel) =
                ChannelCountIn(Before, channel) - Cardinality(InvalidatedOf(channel))

\* the claims the expiry pass of the next block abandons, in the order of
\* their first _abandon_claim, when no transaction of the block touches a
\* claim
ExpiryAbandonOrder ==
    LET expired == _expire_claims(StartOfBlock, kv, db, height + 1).abandoned_claims
    IN [i \in 1..Len(expired) |-> expired[i][2].name]

\* C27, for claims that expire at the same height: every claim that is not
\* a channel is abandoned before any channel is abandoned.
C27_ChannelsAbandonedLast ==
    Committed =>
        \A i, j \in 1..Len(ExpiryAbandonOrder) :
            (IsChannelName(ExpiryAbandonOrder[i]) /\ ~IsChannelName(ExpiryAbandonOrder[j]))
                => j < i

\* ------------------------------------------------------------------------
\* Blocks that update a claim twice: the first transaction makes a claim or
\* updates a claim of the store, the second one spends the output of the
\* first and updates the same claim
\* ------------------------------------------------------------------------

\* highest block height of this layer
MaxUpdateHeight == 3

\* the first transaction: a claim_name or an update_claim output
UpdateFirsts ==
    {tx \in ClaimTxs :
        /\ tx.outputs # <<>>
        /\ tx.outputs[1].script.kind \in {"claim_name", "update_claim"}}

\* the amount of the update_claim output of the second transaction; 0 for
\* a block without a second transaction
UpdateSeconds == {0} \cup ClaimAmounts

\* the block of the transactions on top of the tip; the claim of the first
\* transaction is the claim of its update_claim output or, for a claim_name
\* output, the hash of the output (the coinbase has the number tx_count)
UpdateBlock(first, second) ==
    LET path == Append(tip, <<first, second>>)
        script == first.outputs[1].script
        claim_hash == IF script.kind = "claim_name" THEN hash160(tx_count + 1, 0)
                      ELSE script.claim_hash
    IN [header |-> [hash |-> path, prev |-> tip],
        transactions |->
            <<CoinbaseTx(path),
              [hash |-> <<path, 1>>, inputs |-> first.inputs, outputs |-> first.outputs]>>
            \o IF second = 0 THEN <<>>
               ELSE <<[hash |-> <<path, 2>>,
                       inputs |-> <<[prev_hash |-> <<path, 1>>, prev_idx |-> 0]>>,
                       outputs |-> <<TxOut(second,
                                       Script("update_claim", script.name, claim_hash))>>]>>]

UpdateInit ==
    /\ height = 0
    /\ tip = GENESIS_HASH
    /\ tx_count = 0
    /\ db = InitDb(FALSE)
    /\ kv = InitKv(FALSE)
    /\ op_stack = <<>>
    /\ staging = EmptyStaging
    /\ touched_hashXs = {}
    /\ daemon_height = MaxUpdateHeight
    /\ caught_up = TRUE
    /\ pc = "idle"
    /\ snap = <<>>
    /\ saved = <<>>
    /\ run = [adv |-> 0, bk |-> 0]
    /\ daemon_chain = <<>>
    /\ pf = None /\ bp = None /\ mp = None /\ state_lock = None
    /\ exec = None /\ reader = None /\ top = None

UpdateAdvance ==
    \E first \in UpdateFirsts, second \in UpdateSeconds :
        AdvanceBlock(UpdateBlock(first, second))

UpdateNext ==
    \/ UpdateAdvance /\ UNCHANGED schedVars
    \/ Flush /\ UNCHANGED schedVars

SpecUpdate == UpdateInit /\ [][UpdateNext]_vars

\* the claim_name output the claim was made by is the output its row names
\* as root
RootIsOrigin(store, c) ==
    /\ hash160(store[<<"claim_to_txo", c>>].root_tx_num,
               store[<<"claim_to_txo", c>>].root_position) = c
    /\ \E k \in Rows(store, "tx") :
           /\ store[<<"tx_hash", store[<<"claim_to_txo", c>>].root_tx_num>>] = k[2]
           /\ store[k].outputs[store[<<"claim_to_txo", c>>].root_position + 1].script.kind
                  = "claim_name"

\* C28: across the updates of a claim its root pointers stay the
\* (tx_num, nout) of the claim_name output that made it and its ClaimHash
\* stays the hash of that output, whether the output an update spends was
\* staged by the same block or read from the store; a claim still at its
\* claim_name output has this output as its root.
C28_RootPointersInherited ==
    Committed =>
        \A c \in LiveClaims :
            /\ RootIsOrigin(kv, c)
            /\ (snap # <<>> /\ has_claim_txo(Before, c)) =>
                   /\ get_claim_txo(kv, c).root_tx_num = get_claim_txo(Before, c).root_tx_num
                   /\ get_claim_txo(kv, c).root_position
                          = get_claim_txo(Before, c).root_position
            /\ hash160(get_claim_txo(kv, c).tx_num, get_claim_txo(kv, c).position) = c =>
                   /\ get_claim_txo(kv, c).root_tx_num = get_claim_txo(kv, c).tx_num
                   /\ get_claim_txo(kv, c).root_position = get_claim_txo(kv, c).position

\* a claim made by an earlier block has been updated twice by the block
\* just committed: its first transaction spent the output of the store, its
\* second transaction the output of the first
C28_Witness ==
    /\ Committed
    /\ snap # <<>>
    /\ \E c \in LiveClaims :
          /\ has_claim_txo(Before, c)
          /\ get_claim_txo(kv, c).tx_num = Last(snap).tx_count + 2
          /\ get_claim_txo(kv, c).root_tx_num < Last(snap).tx_count

\* ---- the requests of the prefetcher ----

\* this step issues a request to the daemon: _prefetch_blocks passes the
\* test of its loop and awaits block_hex_hashes
RequestStep == pf' # pf /\ pf'.pc = "fetch" /\ (pf.pc = "fetch" => pf'.fetched_height # pf.fetched_height)

\* this step is the return of the blocks a request asked for
FetchedStep == pf.pc = "fetch" /\ pf'.fetched_height # pf.fetched_height

\* this step ends a batch at the test of the count
CaughtUpStep == pf.pc \in {"semaphore", "fetch"} /\ pf'.pc = "sleep"

\* min(500, max(0, daemon_height - fetched_height), min_cache_size div ave_size)
StatedCount(p) ==
    Min(500, Min(Max(0, p.daemon_height - p.fetched_height), min_cache_size \div ave_size))

\* C29: a request is issued only while the cache is below min_cache_size,
\* for count = min(500, max(0, daemon_height - fetched_height),
\* min_cache_size div ave_size) blocks from fetched_height + 1 on, with
\* 1 <= count <= 500; a count of 0 ends the batch without a request; and
\* when the blocks arrive fetched_height has grown by count and the cache by
\* what was received.
C29_FetchCountAndProgress ==
    [][/\ RequestStep =>
              /\ Len(pf'.blocks) < min_cache_size
              /\ pf'.count = StatedCount(pf')
              /\ 1 <= pf'.count /\ pf'.count <= 500
              /\ pf'.first = pf'.fetched_height + 1
       /\ CaughtUpStep =>
              /\ StatedCount(pf') = 0
              /\ Len(pf'.blocks) < min_cache_size
              /\ pf'.semaphore = "free"
       /\ FetchedStep =>
              /\ pf'.fetched_height = pf.fetched_height + pf.count
              /\ Len(pf'.blocks) = Len(pf.blocks) + pf.count
              /\ \A i \in 1..pf.count :
                     pf'.blocks[Len(pf.blocks) + i] = DaemonHash(pf.first + i - 1)]_schedAll

\* a request for as many blocks as the cache has room for, fewer than the
\* daemon has, is in flight
C29_Witness ==
    /\ pf.pc = "fetch"
    /\ pf.first = pf.fetched_height + 1
    /\ pf.count = min_cache_size \div ave_size
    /\ pf.daemon_height - pf.fetched_height > pf.count

\* ------------------------------------------------------------------------
\* MemPool._process_mempool: the transactions of the daemon's mempool are
\* fetched in chunks and accepted once their prevouts are found
\* ------------------------------------------------------------------------

\* the hashes of the transactions the daemon's mempool can hold
AcceptHashes == {"t1", "t2", "t3"}
\* the outputs of confirmed transactions the mempool transactions can spend,
\* and those of them the DB holds as unspent
DbPrevouts == {<<"d1", 0>>, <<"d2", 0>>}
DbUtxos == {<<"d1", 0>>}
\* chunks(new_hashes, 200), scaled down
ChunkSize == 2
\* the number of refreshes of a run
MaxRefreshes == 2

\* a prevout that was not found (None)
NoUtxo == <<>>

\* db.lookup_utxos(prevouts): the (hashX, value) pair of an unspent output
\* of the DB, None for a failed lookup
lookup_utxos(prevouts) ==
    [i \in 1..Len(prevouts) |-> IF prevouts[i] \in DbUtxos THEN <<"d", 2>> ELSE NoUtxo]

\* the prevouts a transaction with this hash can have: none, an output of
\* the DB, the output of another mempool transaction, or both
PrevoutChoices(hash) ==
    {<<>>} \cup {<<p>> : p \in DbPrevouts}
    \cup {<<<<g, 0>>>> : g \in AcceptHashes \ {hash}}
    \cup {<<<<"d1", 0>>, <<g, 0>>>> : g \in AcceptHashes \ {hash}}

MemPoolTx(prevouts, in_pairs, out_pairs, fee, size) ==
    [prevouts |-> prevouts, in_pairs |-> in_pairs, out_pairs |-> out_pairs,
     fee |-> fee, size |-> size]

\* the sequences that hold each element of the set once
RECURSIVE Orders(_)
Orders(s) ==
    IF s = {} THEN {<<>>}
    ELSE UNION {{<<x>> \o o : o \in Orders(s \ {x})} : x \in s}

\* chunks(items, size)
RECURSIVE chunks(_, _)
chunks(items, size) ==
    IF Len(items) <= size THEN IF items = <<>> THEN <<>> ELSE <<items>>
    ELSE <<SubSeq(items, 1, size)>> \o chunks(SubSeq(items, size + 1, Len(items)), size)

\* d.update(e)
RECURSIVE DictUpdate(_, _)
DictUpdate(d, e) ==
    IF e = <<>> THEN d ELSE DictUpdate(DictSet(d, Head(e)[1], Head(e)[2]), Tail(e))

\* sum(v for _, v in pairs)
RECURSIVE SumValues(_)
SumValues(pairs) == IF pairs = <<>> THEN 0 ELSE Head(pairs)[2] + SumValues(Tail(pairs))

\* for hashX, value in pairs: hashXs[hashX].add(hash)
RECURSIVE AddHashXs(_, _, _)
AddHashXs(hashXs, pairs, hash) ==
    IF pairs = <<>> THEN hashXs
    ELSE AddHashXs(DictSet(hashXs, Head(pairs)[1],
                           DictGetOr(hashXs, Head(pairs)[1], {}) \cup {hash}),
                   Tail(pairs), hash)

\* a removal that leaves the entry of a hashX in place when it is empty
RECURSIVE RemoveHashXsKeepEmpty(_, _, _)
RemoveHashXsKeepEmpty(hashXs, tx_hashXs, tx_hash) ==
    IF tx_hashXs = {} THEN hashXs
    ELSE LET hashX == CHOOSE x \in tx_hashXs : TRUE
         IN RemoveHashXsKeepEmpty(DictSet(hashXs, hashX, DictGet(hashXs, hashX) \ {tx_hash}),
                                  tx_hashXs \ {hashX}, tx_hash)

\* for hashX in tx_hashXs: hashXs[hashX].remove(tx_hash), and the entry is
\* deleted when it is left empty
RECURSIVE RemoveHashXs(_, _, _)
RemoveHashXs(hashXs, tx_hashXs, tx_hash) ==
    IF tx_hashXs = {} THEN hashXs
    ELSE LET hashX == CHOOSE x \in tx_hashXs : TRUE
             left == DictGet(hashXs, hashX) \ {tx_hash}
         IN RemoveHashXs(IF left = {} THEN DictPop(hashXs, hashX)
                         ELSE DictSet(hashXs, hashX, left),
                         tx_hashXs \ {hashX}, tx_hash)

PairHashXs(pairs) == {pairs[i][1] : i \in 1..Len(pairs)}

\* the try block of _accept_transactions: the utxo of each prevout, from
\* utxo_map or else from the outputs of the accepted transaction prev_hash;
\* None where txs[prev_hash] raises KeyError
InPairs(txs, utxo_map, prevouts) ==
    [i \in 1..Len(prevouts) |->
        IF DictGetOr(utxo_map, prevouts[i], NoUtxo) # NoUtxo
        THEN DictGet(utxo_map, prevouts[i])
        ELSE IF DictHas(txs, prevouts[i][1])
             THEN DictGet(txs, prevouts[i][1]).out_pairs[prevouts[i][2] + 1]
             ELSE NoUtxo]

\* a transaction is accepted with the prevouts that were found
InPairsFound(txs, utxo_map, prevouts) ==
    SelectSeq(InPairs(txs, utxo_map, prevouts), LAMBDA pair : pair # NoUtxo)

\* _accept_transactions from `txs[hash] = tx` on
Accepted(m, hash, tx, in_pairs) ==
    [m EXCEPT
        !.txs = DictSet(@, hash,
                    [tx EXCEPT !.in_pairs = in_pairs,
                               !.fee = Max(0, SumValues(in_pairs) - SumValues(tx.out_pairs))]),
        !.touched = @ \cup PairHashXs(in_pairs) \cup PairHashXs(tx.out_pairs),
        !.hashXs = AddHashXs(@, in_pairs \o tx.out_pairs, hash)]

\* a loop that accepts a transaction whether or not its prevouts are found
RECURSIVE AcceptAll(_, _, _, _, _)
AcceptAll(m, items, utxo_map, deferred, unspent) ==
    IF items = <<>> THEN [mp |-> m, deferred |-> deferred, unspent |-> unspent]
    ELSE AcceptAll(Accepted(m, Head(items)[1], Head(items)[2],
                       InPairsFound(m.txs, utxo_map, Head(items)[2].prevouts)),
                   Tail(items), utxo_map, deferred,
                   unspent \ {Head(items)[2].prevouts[i] :
                                 i \in 1..Len(Head(items)[2].prevouts)})

\* for hash, tx in tx_map.items(): the transaction is deferred when a
\* prevout is not found, else its prevouts are spent and it is accepted
RECURSIVE AcceptEach(_, _, _, _, _)
AcceptEach(m, items, utxo_map, deferred, unspent) ==
    IF items = <<>> THEN [mp |-> m, deferred |-> deferred, unspent |-> unspent]
    ELSE LET hash == Head(items)[1]
             tx == Head(items)[2]
             in_pairs == InPairs(m.txs, utxo_map, tx.prevouts)
         IN IF \E i \in 1..Len(in_pairs) : in_pairs[i] = NoUtxo
            THEN AcceptEach(m, Tail(items), utxo_map, DictSet(deferred, hash, tx), unspent)
            ELSE AcceptEach(Accepted(m, hash, tx, in_pairs), Tail(items), utxo_map, deferred,
                            unspent \ {tx.prevouts[i] : i \in 1..Len(tx.prevouts)})

\* _accept_transactions(tx_map, utxo_map, touched): the mempool, the
\* deferred transactions and the utxo_map of the prevouts left unspent
_accept_transactions(m, tx_map, utxo_map) ==
    LET done == AcceptEach(m, tx_map, utxo_map, <<>>, DictKeys(utxo_map))
    IN [mp |-> done.mp, deferred |-> done.deferred,
        unspent |-> SelectSeq(utxo_map, LAMBDA e : e[1] \in done.unspent)]

\* for tx_hash in set(txs).difference(all_hashes): the transactions that
\* have disappeared are taken out of txs and of hashXs
RECURSIVE Disappear(_, _)
Disappear(m, gone) ==
    IF gone = {} THEN m
    ELSE LET tx_hash == CHOOSE x \in gone : TRUE
             tx == DictGet(m.txs, tx_hash)
             tx_hashXs == PairHashXs(tx.in_pairs) \cup PairHashXs(tx.out_pairs)
         IN Disappear([m EXCEPT !.txs = DictPop(@, tx_hash),
                                !.hashXs = RemoveHashXs(@, tx_hashXs, tx_hash),
                                !.touched = @ \cup tx_hashXs],
                      gone \ {tx_hash})

\* to_hashX(txout.pk_script) of the output of each transaction: two of the
\* transactions pay to the same script
OutputHashX(hash) == IF hash = "t3" THEN "n" ELSE "m"

\* the tx_map of _fetch_and_accept: the transactions of `hashes` the daemon
\* still returns, each with one output
FetchedTxMap(pool, hashes, evicted) ==
    LET kept == SelectSeq(hashes, LAMBDA hash : hash \notin evicted)
    IN [i \in 1..Len(kept) |->
           <<kept[i], MemPoolTx(pool[kept[i]], <<>>, <<<<OutputHashX(kept[i]), 1>>>>, 0, 1)>>]

\* prevouts = tuple(prevout for tx in tx_map.values() for prevout in
\* tx.prevouts if prevout[0] not in all_hashes)
RECURSIVE DbLookups(_, _)
DbLookups(tx_map, all_hashes) ==
    IF tx_map = <<>> THEN <<>>
    ELSE SelectSeq(Head(tx_map)[2].prevouts, LAMBDA prevout : prevout[1] \notin all_hashes)
         \o DbLookups(Tail(tx_map), all_hashes)

\* dict(zip(prevouts, utxos))
RECURSIVE Zip(_, _, _)
Zip(d, keys, values) ==
    IF keys = <<>> THEN d
    ELSE Zip(DictSet(d, Head(keys), Head(values)), Tail(keys), Tail(values))

\* _fetch_and_accept(hashes, all_hashes, touched), the daemon returning no
\* raw transaction for the hashes of `evicted`
_fetch_and_accept(m, hashes, evicted) ==
    LET tx_map == FetchedTxMap(m.pool, hashes, evicted)
        prevouts == DbLookups(tx_map, m.all_hashes)
    IN _accept_transactions(m, tx_map, Zip(<<>>, prevouts, lookup_utxos(prevouts)))

\* the mempool before its first refresh; pool is the daemon's transaction
\* of each hash
EmptyMempool(pool) ==
    [pc |-> "idle", pool |-> pool, txs |-> <<>>, hashXs |-> <<>>, touched |-> {},
     all_hashes |-> {}, new_hashes |-> <<>>, fetches |-> <<>>, fetched |-> {},
     tx_map |-> <<>>, utxo_map |-> <<>>, prior_count |-> 0, rounds |-> 0,
     deferred_count |-> 0, dropped |-> {}, refreshes |-> 0]

AcceptInit ==
    /\ height = 0
    /\ tip = GENESIS_HASH
    /\ tx_count = 0
    /\ db = InitDb(FALSE)
    /\ kv = InitKv(FALSE)
    /\ op_stack = <<>>
    /\ staging = EmptyStaging
    /\ touched_hashXs = {}
    /\ daemon_height = 0
    /\ caught_up = TRUE
    /\ pc = "idle"
    /\ snap = <<>>
    /\ saved = <<>>
    /\ run = [adv |-> 0, bk |-> 0]
    /\ daemon_chain = <<>>
    /\ \E pool \in [AcceptHashes -> UNION {PrevoutChoices(h) : h \in AcceptHashes}] :
          /\ \A h \in AcceptHashes : pool[h] \in PrevoutChoices(h)
          /\ mp = EmptyMempool(pool)
    /\ pf = None /\ bp = None /\ state_lock = None
    /\ exec = None /\ reader = None /\ top = None

\* _process_mempool(all_hashes) up to its first await: the transactions
\* that have disappeared are removed and the new hashes are cut into chunks
MpProcessMempool ==
    /\ mp.pc = "idle"
    /\ mp.refreshes < MaxRefreshes
    /\ \E all_hashes \in SUBSET AcceptHashes :
          LET gone == Disappear([mp EXCEPT !.touched = {}],
                                DictKeys(mp.txs) \ all_hashes)
          IN \E new_hashes \in Orders(all_hashes \ DictKeys(gone.txs)) :
                mp' = [gone EXCEPT
                          !.pc = IF new_hashes = <<>> THEN "idle" ELSE "fetch",
                          !.all_hashes = all_hashes,
                          !.new_hashes = new_hashes,
                          !.fetches = chunks(new_hashes, ChunkSize),
                          !.fetched = {},
                          !.tx_map = <<>>, !.utxo_map = <<>>,
                          !.prior_count = 0, !.rounds = 0, !.deferred_count = 0,
                          !.dropped = {},
                          !.refreshes = @ + 1]
    /\ UNCHANGED <<chainVars, daemon_chain, pf, bp, state_lock, exec, reader, top>>

\* for fetch in asyncio.as_completed(fetches): one _fetch_and_accept
\* completes; tx_map.update(deferred), utxo_map.update(unspent)
MpFetchAndAccept ==
    /\ mp.pc = "fetch"
    /\ \E i \in 1..Len(mp.fetches) :
          \E evicted \in SUBSET {mp.fetches[i][j] : j \in 1..Len(mp.fetches[i])} :
              LET done == _fetch_and_accept(mp, mp.fetches[i], evicted)
                  left == [j \in 1..(Len(mp.fetches) - 1) |->
                              IF j < i THEN mp.fetches[j] ELSE mp.fetches[j + 1]]
              IN mp' = [done.mp EXCEPT
                           !.fetches = left,
                           !.fetched = @ \cup ({mp.fetches[i][j] : j \in 1..Len(mp.fetches[i])}
                                               \ evicted),
                           !.tx_map = DictUpdate(@, done.deferred),
                           !.utxo_map = DictUpdate(@, done.unspent),
                           !.deferred_count =
                               IF left = <<>> THEN Len(DictUpdate(mp.tx_map, done.deferred))
                               ELSE 0,
                           !.pc = IF left = <<>> THEN "accept" ELSE "fetch"]
    /\ UNCHANGED <<chainVars, daemon_chain, pf, bp, state_lock, exec, reader, top>>

\* while tx_map and len(tx_map) != prior_count: one iteration
MpAcceptRound ==
    /\ mp.pc = "accept"
    /\ mp.tx_map # <<>>
    /\ Len(mp.tx_map) # mp.prior_count
    /\ LET done == _accept_transactions(mp, mp.tx_map, mp.utxo_map)
       IN mp' = [done.mp EXCEPT !.prior_count = Len(mp.tx_map),
                                !.tx_map = done.deferred,
                                !.utxo_map = done.unspent,
                                !.rounds = @ + 1]
    /\ UNCHANGED <<chainVars, daemon_chain, pf, bp, state_lock, exec, reader, top>>

\* the loop is left; the transactions still in tx_map are dropped and
\* _process_mempool returns
MpAcceptEnd ==
    /\ mp.pc = "accept"
    /\ mp.tx_map = <<>> \/ Len(mp.tx_map) = mp.prior_count
    /\ mp' = [mp EXCEPT !.pc = "idle", !.dropped = DictKeys(mp.tx_map)]
    /\ UNCHANGED <<chainVars, daemon_chain, pf, bp, state_lock, exec, reader, top>>

AcceptNext ==
    \/ MpProcessMempool
    \/ MpFetchAndAccept
    \/ MpAcceptRound
    \/ MpAcceptEnd

SpecAccept == AcceptInit /\ [][AcceptNext]_vars

\* the prevout is an unspent output of the DB or an output of a
\* transaction the mempool has accepted
PrevoutResolved(prevout) ==
    \/ prevout \in DbUtxos
    \/ /\ DictHas(mp.txs, prevout[1])
       /\ prevout[2] + 1 <= Len(DictGet(mp.txs, prevout[1]).out_pairs)

\* the (hashX, value) pair of a resolved prevout
PrevoutPair(prevout) ==
    IF prevout \in DbUtxos THEN lookup_utxos(<<prevout>>)[1]
    ELSE DictGet(mp.txs, prevout[1]).out_pairs[prevout[2] + 1]

\* _process_mempool has fetched new transactions and has returned
Refreshed == mp.pc = "idle" /\ mp.new_hashes # <<>>

\* C30: the accept loop of a refresh ends, after at most one iteration more
\* than the transactions it was left with; once it has ended a transaction
\* that was fetched is in txs, with every prevout resolved from an unspent
\* output of the DB or from an output of an accepted transaction and with
\* the pairs of these outputs as its in_pairs, or it has been dropped; and
\* a transaction with a prevout that cannot be resolved is not in txs.
C30_AcceptedHaveResolvedPrevouts ==
    /\ mp.pc = "accept" => mp.rounds + Len(mp.tx_map) <= mp.deferred_count + 1
    /\ Refreshed =>
          /\ mp.fetches = <<>>
          /\ \A hash \in mp.fetched :
                IF DictHas(mp.txs, hash)
                THEN /\ hash \notin mp.dropped
                     /\ \A i \in 1..Len(mp.pool[hash]) :
                           /\ PrevoutResolved(mp.pool[hash][i])
                           /\ DictGet(mp.txs, hash).in_pairs[i] = PrevoutPair(mp.pool[hash][i])
                     /\ Len(DictGet(mp.txs, hash).in_pairs) = Len(mp.pool[hash])
                ELSE hash \in mp.dropped
    /\ \A hash \in DictKeys(mp.txs) \cap {mp.new_hashes[i] : i \in 1..Len(mp.new_hashes)} :
          \A i \in 1..Len(mp.pool[hash]) : PrevoutResolved(mp.pool[hash][i])

\* the loop has gone round twice: a transaction that spends an output of the
\* DB and the output of a mempool transaction was deferred and then
\* accepted, and another transaction was dropped
C30_Witness ==
    /\ Refreshed
    /\ mp.rounds >= 2
    /\ mp.dropped # {}
    /\ \E hash \in DictKeys(mp.txs) :
          /\ Len(mp.pool[hash]) = 2
          /\ hash \in {mp.new_hashes[i] : i \in 1..Len(mp.new_hashes)}

\* ---------------------------------------------------------------------
\* The hashX index of the mempool

\* the hashXs a pair of the model can have
MempoolHashXs == {"d", "m", "n"}

\* the transactions of txs that have hashX in their in_pairs or out_pairs
TxsOfHashX(txs, hashX) ==
    {hash \in DictKeys(txs) :
        hashX \in PairHashXs(DictGet(txs, hash).in_pairs)
                  \cup PairHashXs(DictGet(txs, hash).out_pairs)}

\* _process_mempool has returned at least once
AfterRefresh == mp.pc = "idle" /\ mp.refreshes >= 1

\* the new hashes of the last refresh the daemon returned no transaction for
EvictedHashes == {mp.new_hashes[i] : i \in 1..Len(mp.new_hashes)} \ mp.fetched

\* C31: after every refresh hashXs is the index of txs: tx_hash is in
\* hashXs[x] exactly when tx_hash is a key of txs and x occurs in the
\* in_pairs or out_pairs of that transaction; no hashX maps to an empty set;
\* and no transaction that has disappeared from the daemon's mempool (it is
\* not in all_hashes, or the daemon no longer returned it) is in txs or in
\* a set of hashXs.
C31_HashXsIndexesTxs ==
    AfterRefresh =>
        /\ DictKeys(mp.hashXs) \subseteq MempoolHashXs
        /\ \A hashX \in MempoolHashXs :
              DictGetOr(mp.hashXs, hashX, {}) = TxsOfHashX(mp.txs, hashX)
        /\ \A hashX \in DictKeys(mp.hashXs) : DictGet(mp.hashXs, hashX) # {}
        /\ DictKeys(mp.txs) \subseteq mp.all_hashes \ EvictedHashes
        /\ \A hashX \in DictKeys(mp.hashXs) :
              DictGet(mp.hashXs, hashX) \subseteq mp.all_hashes \ EvictedHashes

\* the second refresh has removed the only transaction that spent an output
\* of the DB, so the entry of its hashX is gone, while another transaction
\* stays indexed
C31_Witness ==
    /\ AfterRefresh
    /\ mp.refreshes = 2
    /\ "d" \in mp.touched
    /\ ~ DictHas(mp.hashXs, "d")
    /\ mp.txs # <<>>

\* ---------------------------------------------------------------------
\* Blocks that link to the tip and do not form a chain

\* the blocks handed to check_and_advance_blocks link to the tip with the
\* first block and not among themselves
InteriorMismatch(blocks) ==
    /\ blocks # <<>>
    /\ header_prevhash(Block(blocks[1]).header) = tip
    /\ ~ FormChain(tip, blocks)

\* check_and_advance_blocks is in prefetcher.reset_height
InReset == pc \in {"reset_semaphore", "reset_height"}

\* C32: when the blocks received link to the tip with their first block and
\* do not form a chain among themselves, check_and_advance_blocks takes
\* the branch that resets the prefetcher and keeps none of the blocks as
\* its batch; from there until it returns no block is advanced or unwound
\* and height, tip, tx_count, the DB and the staged state are unchanged;
\* what it does is reset_height(self.height), after which it returns.
C32_BrokenBatchOnlyResets ==
    /\ [][(TakeStep /\ InteriorMismatch(pf.blocks)) =>
             /\ pc' = "reset_semaphore"
             /\ bp'.batch = <<>>]_schedAll
    /\ [][InReset =>
             /\ UNCHANGED <<chainData, history, caught_up, exec>>
             /\ bp'.batch = bp.batch /\ bp'.count = bp.count
             /\ pc' \in {pc, "reset_height", "idle"}
             /\ pc = "reset_semaphore" => pc' # "idle"
             /\ ResetStep => /\ pf'.fetched_height = height
                             /\ pf'.blocks = <<>>
                             /\ pf'.refill_event]_schedAll

\* the prefetcher was reset after a batch that did not form a chain: no
\* block was unwound, so the reset is not the end of a reorganisation
C32_Witness ==
    /\ pc = "reset_height"
    /\ run.bk = 0
    /\ height >= 1
    /\ pf.fetched_height = height

\* ---------------------------------------------------------------------
\* The touched sets the processor and the mempool refresh hand to the
\* mempool.  on_block is given the set object self.touched_hashXs and
\* stores it in _touched_bp without copying it, so every set _touched_bp
\* holds is this object and has the content the processor's set has.
\* ---------------------------------------------------------------------

\* greatest height of the processor and of the daemon in this layer
MaxTouchedHeight == 2
\* the number of calls of on_block and on_mempool in a run
MaxTouchedCalls == 4
\* the number of blocks the reorganisations of a run unwind
MaxTouchedBackups == 2

\* the sets held in _touched_bp after the processor has changed its
\* touched_hashXs in place
SharedTouched(m, touched) ==
    [m EXCEPT !.touched_bp = [k \in DOMAIN @ |-> touched]]

\* the hashXs a notification has passed to notify_sessions
NotifiedTouched(m) == IF m.notified.height >= 0 THEN m.notified.touched ELSE {}

\* the history of a call: the hashXs handed over and not yet passed to
\* notify_sessions, the heights of the last calls, whether the heights of
\* on_block and of on_mempool have each been non-decreasing, whether
\* on_block was given a height below the one of start, and the height of
\* the notification before this call
Recorded(before, after, kind, touched, h) ==
    [after EXCEPT
        !.calls = @ + 1,
        !.owed_bp = (@ \cup (IF kind = "bp" THEN touched ELSE {})) \ NotifiedTouched(after),
        !.owed_mp = (@ \cup (IF kind = "mp" THEN touched ELSE {})) \ NotifiedTouched(after),
        !.last_bp = IF kind = "bp" THEN h ELSE @,
        !.last_mp = IF kind = "mp" THEN h ELSE @,
        !.ordered = /\ @
                    /\ kind = "bp" => h >= before.last_bp
                    /\ kind = "mp" => h >= before.last_mp,
        !.below_start = @ \/ (kind = "bp" /\ h < before.height),
        !.prev_notified = IF before.notified.height >= 0 THEN before.notified.height ELSE @]

\* the mempool the server has started at the processor's height
TouchedMempool(h) ==
    start([pc |-> "start", height |-> h, touched_mp |-> <<>>, touched_bp |-> <<>>,
           highest_block |-> -1, notified |-> NotNotified,
           calls |-> 0, owed_bp |-> {}, owed_mp |-> {}, last_bp |-> -1, last_mp |-> -1,
           ordered |-> TRUE, below_start |-> FALSE, prev_notified |-> -1], h)

TouchedInit ==
    /\ height \in 0..MaxTouchedHeight
    /\ tip = GENESIS_HASH
    /\ tx_count = 0
    /\ db = InitDb(FALSE)
    /\ kv = InitKv(FALSE)
    /\ op_stack = <<>>
    /\ staging = EmptyStaging
    /\ touched_hashXs = {}
    /\ daemon_height = 0
    /\ caught_up = TRUE
    /\ pc = "idle"
    /\ snap = <<>>
    /\ saved = <<>>
    /\ run = [adv |-> 0, bk |-> 0]
    /\ daemon_chain = <<>>
    /\ mp = TouchedMempool(height)
    /\ pf = None /\ bp = None /\ state_lock = None
    /\ exec = None /\ reader = None /\ top = None

\* advance_block of the next block of a batch: the hashXs of the block are
\* added to touched_hashXs
TouchedAdvance ==
    /\ height < MaxTouchedHeight
    /\ height' = height + 1
    /\ touched_hashXs' = touched_hashXs \cup {<<"b", height + 1>>}
    /\ mp' = SharedTouched(mp, touched_hashXs')
    /\ pc' = "batch"
    /\ run' = [run EXCEPT !.adv = @ + 1]
    /\ UNCHANGED <<tip, tx_count, db, kv, op_stack, staging, daemon_height, caught_up,
                   snap, saved, daemon_chain, pf, bp, state_lock, exec, reader, top>>

\* the batch is processed: mempool.on_block(self.touched_hashXs,
\* self.height), then self.touched_hashXs.clear()
TouchedOnBlock ==
    /\ pc = "batch"
    /\ mp.calls < MaxTouchedCalls
    /\ LET before == [mp EXCEPT !.notified = NotNotified]
       IN mp' = SharedTouched(Recorded(mp, on_block(before, touched_hashXs, height),
                                       "bp", touched_hashXs, height), {})
    /\ touched_hashXs' = {}
    /\ pc' = "idle"
    /\ UNCHANGED <<height, tip, tx_count, db, kv, op_stack, staging, daemon_height,
                   caught_up, snap, saved, run, daemon_chain, pf, bp, state_lock, exec,
                   reader, top>>

\* backup_block of a reorganisation, between two batches
TouchedBackup ==
    /\ pc = "idle"
    /\ height > 0
    /\ run.bk < MaxTouchedBackups
    /\ height' = height - 1
    /\ run' = [run EXCEPT !.bk = @ + 1]
    /\ UNCHANGED <<tip, tx_count, db, kv, op_stack, staging, touched_hashXs, daemon_height,
                   caught_up, pc, snap, saved, daemon_chain, mp, pf, bp, state_lock, exec,
                   reader, top>>

\* _refresh_hashes calls on_mempool(touched, new_touched, height) with the
\* hashXs this refresh has touched
TouchedOnMempool ==
    /\ mp.calls < MaxTouchedCalls
    /\ \E h \in 0..MaxTouchedHeight :
          LET before == [mp EXCEPT !.notified = NotNotified]
              touched == {<<"m", mp.calls + 1>>}
          IN mp' = Recorded(mp, on_mempool(before, touched, {}, h), "mp", touched, h)
    /\ UNCHANGED <<chainVars, daemon_chain, pf, bp, state_lock, exec, reader, top>>

TouchedNext ==
    \/ TouchedAdvance
    \/ TouchedOnBlock
    \/ TouchedBackup
    \/ TouchedOnMempool

SpecTouched == TouchedInit /\ [][TouchedNext]_vars

\* the hashXs the sets of a dict hold
HeldIn(dict) == UNION {dict[k] : k \in DOMAIN dict}

\* C33: every hashX of the touched set the processor has passed to
\* mempool.on_block is passed to notify_sessions by that call or is kept in
\* _touched_bp for a later notification, also after the processor has
\* cleared touched_hashXs.
C33_BlockTouchedKept == mp.owed_bp \subseteq HeldIn(mp.touched_bp)

\* C34: every hashX of the touched set a mempool refresh has passed to
\* on_mempool is passed to notify_sessions by that call or is kept in
\* _touched_mp for a later notification: a touched-set recorded for a height
\* is not overwritten or discarded before it has been notified.
C34_MempoolTouchedKept == mp.owed_mp \subseteq HeldIn(mp.touched_mp)

\* the last call of on_block or on_mempool has called notify_sessions
TouchedNotified == mp.notified.height >= 0 /\ mp.calls >= 1

\* right after a notification for height H neither _touched_mp nor
\* _touched_bp holds an entry with a key <= H
NoOlderEntries ==
    /\ \A k \in DOMAIN mp.touched_mp : k > mp.notified.height
    /\ \A k \in DOMAIN mp.touched_bp : k > mp.notified.height

\* C35 as stated: when the heights given to on_block and to on_mempool are
\* each non-decreasing, the height of a notification is not below the
\* height of the notify_sessions call before it, and right after a
\* notification for height H neither _touched_mp nor _touched_bp holds an
\* entry with a key <= H.
C35_NotifiedHeightsNonDecreasing ==
    (mp.ordered /\ TouchedNotified) =>
        /\ mp.notified.height >= mp.prev_notified
        /\ NoOlderEntries

\* C35 amended: when the heights given to on_block and to on_mempool are
\* each non-decreasing and no height given to on_block is below the height
\* given to start, the height of a notification is not below the height of
\* the notify_sessions call before it, the one of start included; and right
\* after a notification for height H, whatever the heights were, neither
\* _touched_mp nor _touched_bp holds an entry with a key <= H.
C35_NonDecreasingFromStart ==
    TouchedNotified =>
        /\ (mp.ordered /\ ~ mp.below_start) => mp.notified.height >= mp.prev_notified
        /\ NoOlderEntries

\* a second notification at a greater height than the first, which carries
\* the hashXs of the block and of the refresh of its height
C35_Witness ==
    /\ TouchedNotified
    /\ mp.ordered /\ ~ mp.below_start
    /\ mp.prev_notified > mp.height
    /\ mp.notified.height > mp.prev_notified
    /\ <<"b", mp.notified.height>> \in mp.notified.touched
    /\ \E n \in 1..MaxTouchedCalls : <<"m", n>> \in mp.notified.touched

\* ------------------------------------------------------------------------
\* Blocks with an update_claim output that _add_claim_or_update drops: the
\* chains of the channel layer, where a transaction can also hold an update
\* of a claim it does not spend or an update under another name
\* ------------------------------------------------------------------------

\* a normalized name no claim of the store has
OtherName == "o"

\* the claims of the store as (claim_hash, name) pairs
StoreClaims == {<<k[2], kv[k].name>> : k \in Rows(kv, "claim_to_txo")}

\* an update_claim output for a claim the transaction does not spend
UnlinkedUpdates ==
    {TxOut(1, SignedScript("update_claim", c[2], c[1], sig[1], sig[2], None)) :
        c \in {d \in StoreClaims : ~IsChannelName(d[2])}, sig \in Signatures}

\* an update_claim output for the claim the transaction spends, under
\* another name
MismatchedUpdates(spent) ==
    {TxOut(1, SignedScript("update_claim", OtherName,
                           kv[<<"txo_to_claim", t[1], t[2]>>].claim_hash,
                           sig[1], sig[2], None)) :
        t \in {u \in {spent} : ~IsChannelName(kv[<<"txo_to_claim", u[1], u[2]>>].name)},
        sig \in Signatures}

\* the transactions with an update_claim output that is dropped
DroppedTxs ==
    {[inputs |-> <<>>, outputs |-> <<o>>] : o \in UnlinkedUpdates}
    \cup UNION {{[inputs |-> <<TxIn(t)>>, outputs |-> <<o>>] : o \in MismatchedUpdates(t)} :
                   t \in ChannelTxos}

\* the transactions of a block besides its coinbase: those of the channel
\* layer, or one transaction with a dropped update, alone or after a
\* transaction of the channel layer that spends another output
DroppedBlockTxs ==
    ChannelBlockTxs
    \cup {<<t>> : t \in {u \in DroppedTxs : TxsMade + 1 <= MaxChannelTxs}}
    \cup {p \in {<<t, u>> : t \in ChannelTxs, u \in DroppedTxs} :
              /\ TxsMade + 2 <= MaxChannelTxs
              /\ p[2].inputs = <<>> \/ p[2].inputs # p[1].inputs}

DroppedAdvance == \E txs \in DroppedBlockTxs : AdvanceBlock(ChannelBlock(txs))

DroppedNext ==
    \/ DroppedAdvance /\ UNCHANGED schedVars
    \/ Flush /\ UNCHANGED schedVars

SpecDropped == ChannelInit /\ [][DroppedNext]_vars

\* _add_claim_or_update drops this output of the transaction: it is an
\* update_claim whose claim is not among the claims the inputs of the
\* transaction spend in the store, or is spent under another name
IsDropped(store, tx, txo) ==
    /\ txo.script.kind = "update_claim"
    /\ \A i \in 1..Len(tx.inputs) :
          LET prev == <<get_tx_num(store, tx.inputs[i].prev_hash), tx.inputs[i].prev_idx>>
          IN \/ <<"txo_to_claim", prev[1], prev[2]>> \notin DOMAIN store
             \/ store[<<"txo_to_claim", prev[1], prev[2]>>].claim_hash # txo.script.claim_hash
             \/ store[<<"txo_to_claim", prev[1], prev[2]>>].name # txo.script.name

\* the block has an update_claim output that is dropped
HasDropped(store, block) ==
    \E i \in 1..Len(block.transactions) :
        \E j \in 1..Len(block.transactions[i].outputs) :
            IsDropped(store, block.transactions[i], block.transactions[i].outputs[j])

\* the block with a plain payment in the place of each output that is
\* dropped
WithoutDropped(store, block) ==
    [block EXCEPT !.transactions =
        [i \in 1..Len(@) |->
            [@[i] EXCEPT !.outputs =
                [j \in 1..Len(@) |->
                    IF IsDropped(store, block.transactions[i], @[j])
                    THEN [@[j] EXCEPT !.script = PayScript]
                    ELSE @[j]]]]]

\* the columns of the claims
ClaimColumns ==
    {"claim_to_txo", "txo_to_claim", "claim_short_id", "claim_expiration",
     "claim_takeover", "claim_to_channel", "channel_to_claim", "channel_count",
     "claim_to_support", "support_to_claim", "support_amount", "effective_amount",
     "activated", "active_amount", "pending_activation", "touched_or_deleted"}

ClaimRows(store) == Restrict(store, {k \in DOMAIN store : k[1] \in ClaimColumns})

\* the rows of the claims advance_block stages for the block
StagedClaimRows(block) == ClaimRows(ApplyOps(kv, AdvanceOps(block, height + 1).ops))

\* the blocks with a dropped update_claim output the daemon can send next
NextDroppedBlocks ==
    {ChannelBlock(txs) : txs \in {t \in DroppedBlockTxs : HasDropped(kv, ChannelBlock(t))}}

\* C36: an update_claim output that is dropped has no effect on the result
\* of the block: the rows of the claims, of the channels and their counts,
\* of the supports, of the activations and of the touched claims that
\* advance_block stages are those it stages for the same block with a plain
\* payment in the place of the dropped output.
C36_DroppedUpdateHasNoEffect ==
    (Committed /\ height < daemon_height) =>
        \A block \in NextDroppedBlocks :
            StagedClaimRows(block) = StagedClaimRows(WithoutDropped(kv, block))

\* ---------------------------------------------------------------------
\* The claims the block processor sends to the search index

\* the blocks a behaviour backs up
MaxEsBackups == 1

\* the height of the daemon: the lowest at which claim_producer yields
\* after a block is backed up
MaxEsHeight == 3

\* the blocks a behaviour advances
MaxEsAdvances == 3

\* touched_claims_to_send_es and removed_claims_to_send_es, and what the
\* last run of claim_producer yielded
EsIdle ==
    [touched_claims_to_send_es |-> {}, removed_claims_to_send_es |-> {},
     produced |-> "none", deleted |-> {}, updated |-> {}, restored |-> {},
     disjoint |-> TRUE, backups |-> 0, advances |-> 0]

\* _get_cumulative_update_ops, its last lines: the claims of the block go
\* to the two sets
EsAfterAdvance(es, S) ==
    [es EXCEPT
        !.touched_claims_to_send_es =
            (@ \cup S.touched_claim_hashes) \ S.removed_claim_hashes,
        !.removed_claims_to_send_es = @ \cup S.removed_claim_hashes,
        !.advances = @ + 1]

\* backup_block, its first lines: the claims of the block undone go to the
\* two sets
EsAfterBackup(es, row) ==
    [es EXCEPT
        !.touched_claims_to_send_es = @ \cup row.touched_claims,
        !.removed_claims_to_send_es =
            (@ \ row.touched_claims) \cup row.deleted_claims]

\* the reorg loop after backup_block: a touched claim the DB no longer has
\* is removed
EsFilterTouched(es, store) ==
    LET removed == es.removed_claims_to_send_es \cup
                   {c \in es.touched_claims_to_send_es : ~ has_claim_txo(store, c)}
    IN [es EXCEPT !.removed_claims_to_send_es = removed,
                  !.touched_claims_to_send_es = @ \ removed]

\* claim_producer consumed by claim_consumer, then the sets are cleared:
\* 'delete' for every removed claim, 'update' for what claims_producer makes
\* of the touched claims; nothing below height 2. What a reorg yields is
\* kept
EsProduce(es, db_height, kind, restored) ==
    [touched_claims_to_send_es |-> {}, removed_claims_to_send_es |-> {},
     backups |-> IF kind = "reorg" THEN es.backups + 1 ELSE es.backups,
     advances |-> es.advances,
     produced |-> kind,
     deleted |-> IF db_height <= 1 \/ kind # "reorg" THEN {}
                 ELSE es.removed_claims_to_send_es,
     updated |-> IF db_height <= 1 \/ kind # "reorg" THEN {}
                 ELSE es.touched_claims_to_send_es,
     restored |-> restored,
     disjoint |-> es.touched_claims_to_send_es \cap es.removed_claims_to_send_es = {}]

\* the claims of the store
ClaimsIn(store) == {k[2] : k \in {q \in DOMAIN store : q[1] = "claim_to_txo"}}

EsInit ==
    /\ height = 0
    /\ tip = GENESIS_HASH
    /\ tx_count = 0
    /\ db = InitDb(FALSE)
    /\ kv = InitKv(FALSE)
    /\ op_stack = <<>>
    /\ staging = EmptyStaging
    /\ touched_hashXs = {}
    /\ daemon_height = MaxEsHeight
    /\ caught_up = TRUE
    /\ pc = "idle"
    /\ snap = <<>>
    /\ saved = <<>>
    /\ run = [adv |-> 0, bk |-> 0]
    /\ daemon_chain = <<>>
    /\ bp = EsIdle
    /\ pf = None /\ mp = None /\ state_lock = None
    /\ exec = None /\ reader = None /\ top = None

\* advance_block of a block of a batch
EsAdvance ==
    \E txs \in ChannelBlockTxs :
        LET block == ChannelBlock(txs)
            S == AdvanceOps(block, height + 1)
        IN /\ pc \in {"idle", "flushed"}
           /\ bp.advances < MaxEsAdvances
           /\ height < daemon_height
           /\ db.hist_flush_count < MaxFlushCount
           /\ header_prevhash(block.header) = tip
           /\ AdvanceBlockIn(block, height + 1, S)
           /\ UNCHANGED <<kv, daemon_height, caught_up, saved, run>>
           /\ bp' = IF S.error # None THEN bp ELSE EsAfterAdvance(bp, S)
           /\ UNCHANGED <<daemon_chain, pf, mp, state_lock, exec, reader, top>>

\* flush() of a block of a batch
EsFlush ==
    /\ Flush
    /\ UNCHANGED schedVars

\* the end of the batch: claim_consumer(claim_producer()), then the sets
\* are cleared
EsEndBatch ==
    /\ EndBatch
    /\ bp' = IF db.first_sync
             THEN [EsIdle EXCEPT !.produced = "first_sync", !.backups = bp.backups,
                                 !.advances = bp.advances]
             ELSE EsProduce(bp, db.db_height, "batch", {})
    /\ UNCHANGED <<daemon_chain, pf, mp, state_lock, exec, reader, top>>

\* one iteration of the reorg loop: backup_block, the filter of the
\* touched claims, claim_consumer(claim_producer()), then the sets are cleared
EsBackup ==
    /\ bp.backups < MaxEsBackups
    /\ BackupBlock
    /\ IF /\ op_stack = <<>>
          /\ <<"touched_or_deleted", height>> \in DOMAIN kv
          /\ <<"undo", height>> \in DOMAIN kv
       THEN bp' = EsProduce(
                     EsFilterTouched(
                        EsAfterBackup(bp, kv[<<"touched_or_deleted", height>>]), kv'),
                     db'.db_height, "reorg", ClaimsIn(kv') \ ClaimsIn(kv))
       ELSE bp' = bp
    /\ UNCHANGED <<daemon_chain, pf, mp, state_lock, exec, reader, top>>

EsNext ==
    \/ EsAdvance
    \/ EsFlush
    \/ EsEndBatch
    \/ EsBackup

SpecEs == EsInit /\ [][EsNext]_vars

\* claim_producer has just run for a block the reorg loop backed up, and it
\* had something to yield
AfterReorgProduce == bp.produced = "reorg" /\ db.db_height > 1

\* C37: in the reorg loop no claim emitted as 'delete' exists in the DB
\* after the rollback, every claim the rollback restored is emitted as
\* 'update' and not as 'delete', and the touched and the removed set are
\* disjoint whenever claim_producer runs.
C37_ReorgDeletesOnlyMissing ==
    /\ AfterReorgProduce =>
          /\ \A c \in bp.deleted : ~ has_claim_txo(kv, c)
          /\ bp.restored \subseteq bp.updated
          /\ bp.restored \cap bp.deleted = {}
    /\ bp.disjoint

\* the part of C37 about the two sets alone
EsSetsDisjoint == bp.disjoint

\* a rollback that restored a claim
EsRestored == AfterReorgProduce /\ bp.restored # {}

\* ---------------------------------------------------------------------
\* The two events between the prefetcher and the processor

\* the steps of the tasks while every call of the daemon succeeds
DaemonUpNext ==
    \/ SchedDaemonMine
    \/ DaemonReorg
    \/ PfWake
    \/ PfAcquire
    \/ PfFetch
    \/ PfSleep
    \/ ReaderRun
    \/ ExecAdvance
    \/ ExecFlush
    \/ ExecStateFlush
    \/ ExecRollback
    \/ ExecRollbackState
    \/ BpLoopTop
    \/ BpFirstCaughtUpLock
    \/ BpAfterFirstCaughtUp
    \/ BpTakeBlocks
    \/ BpAdvance
    \/ BpAfterAdvance
    \/ BpFlushLock
    \/ BpAfterFlush
    \/ BpBatchDone
    \/ BpEsSynced
    \/ BpEsLock
    \/ BpAfterEs
    \/ BpBatchEnd
    \/ BpReorgCount
    \/ BpBackup
    \/ BpBackupLock
    \/ BpAfterBackup
    \/ BpBackupClear
    \/ BpBackupSynced
    \/ BpReorgDone
    \/ BpResetHeight
    \/ BpResetDone
    \/ Cancel
    \/ Close

\* the tasks with a daemon whose calls succeed; the event loop and the
\* threads keep running
SpecDaemonUp ==
    /\ SchedInit
    /\ [][DaemonUpNext]_schedAll
    /\ WF_schedAll(PfSteps)
    /\ WF_exec(ExecStep)
    /\ WF_schedAll(ReaderRun)
    /\ WF_schedAll(BpSteps)
    /\ WF_schedAll(Close)

\* the daemon has a block the prefetcher has not fetched
DaemonAhead == Len(daemon_chain) > pf.fetched_height

\* fetch_and_process_blocks has not been cancelled and the processor has
\* not raised
TasksRunning == top.pc = "wait" /\ pc # "fatal"

\* the processor waits in blocks_event.wait()
ProcessorWaits == pc = "await_blocks"

\* the cache holds less than min_cache_size
BelowBudget == Len(pf.blocks) < min_cache_size

\* C38: no wake-up is lost between the prefetcher and the processor. While
\* the calls of the daemon succeed and the tasks run, a daemon ahead of
\* fetched_height leads to a fetch that closes the gap (the fetch sets
\* blocks_event), and a filled cache leads to the processor taking it; the
\* cache is never non-empty with blocks_event clear while the processor
\* waits; refill_event is never clear while the cache is below its budget.
C38_NoLostWakeUp ==
    /\ [](ProcessorWaits /\ pf.blocks # <<>> => bp.blocks_event)
    /\ [](~ pf.refill_event => ~ BelowBudget)
    /\ (DaemonAhead /\ TasksRunning) ~> (~ DaemonAhead \/ ~ TasksRunning)
    /\ (pf.blocks # <<>> /\ TasksRunning) ~> (pf.blocks = <<>> \/ ~ TasksRunning)

\* the prefetcher has filled the cache and cleared refill_event while the
\* processor, which took blocks before, waits with blocks_event set
C38_Witness ==
    /\ ProcessorWaits
    /\ bp.blocks_event
    /\ ~ pf.refill_event
    /\ pf.pc = "wait_refill"
    /\ height >= 1
    /\ TasksRunning

\* ---------------------------------------------------------------------
\* The assertions of backup_block

\* the reorg loop is about to call backup_block
BackupEntry == pc = "bk_next" /\ bp.count > 0

\* C39: the assertions of backup_block hold at each of its entries: the op
\* stack holds no staged operation, and the height of the processor equals
\* db_height, so that height < db_height holds after the decrement.
C39_BackupAssertionsHold ==
    BackupEntry =>
        /\ op_stack = <<>>
        /\ height = db.db_height
        /\ height - 1 < db.db_height

\* the second backup_block of a reorg is about to start, after blocks were
\* advanced, flushed and sent to the search index
C39_Witness ==
    /\ BackupEntry
    /\ run.bk >= 1
    /\ db.es_sync_height >= 1
    /\ height >= 1

\* ---------------------------------------------------------------------
\* channel_count against the channel_to_claim rows

\* the channel_to_claim rows of the channel: the live claims recorded with
\* a valid signature by it
SignedRows(store, channel) == {r \in Rows(store, "channel_to_claim") : r[2] = channel}

\* the channels that have a count or a signed claim in the store
CountedChannels(store) ==
    {k[2] : k \in Rows(store, "channel_count")}
        \cup {r[2] : r \in Rows(store, "channel_to_claim")}

\* C40: after every committed block channel_count of each channel equals
\* the number of its channel_to_claim rows, the live claims recorded with a
\* valid signature by the channel.
C40_ChannelCountMatchesRows ==
    Committed =>
        \A channel \in CountedChannels(kv) :
            ChannelCountIn(kv, channel) = Cardinality(SignedRows(kv, channel))

\* ---------------------------------------------------------------------
\* Chains of claims of one amount, for the ties between them

\* highest block height of this layer
MaxTieHeight == 5

\* the output of a transaction that spends the output `spent` (<<>>: none):
\* a new claim of amount 1, an update of amount 1 of the claim it spends,
\* or a payment
TieOutputs(spent) ==
    {TxOut(1, Script("claim_name", n, -1)) :
        n \in {m \in ClaimNames : OutputsMade("claim_name") < MaxClaims}}
    \cup {TxOut(1, Script("update_claim", kv[<<"txo_to_claim", t[1], t[2]>>].name,
                          kv[<<"txo_to_claim", t[1], t[2]>>].claim_hash)) :
             t \in {u \in {spent} \ {<<>>} : <<"txo_to_claim", u[1], u[2]>> \in DOMAIN kv}}
    \cup {TxOut(1, PayScript) : t \in {spent} \ {<<>>}}

\* the transactions a block of this layer can carry besides its coinbase:
\* none, or one of at most one input and one output
TieTxs ==
    {[inputs |-> <<>>, outputs |-> <<>>]}
    \cup UNION {{[inputs |-> IF t = <<>> THEN <<>> ELSE <<TxIn(t)>>, outputs |-> <<o>>] :
                    o \in TieOutputs(t)} : t \in ClaimTxos \cup {<<>>}}

\* a DB holding genesis, after the first sync, and a daemon MaxTieHeight
\* blocks ahead
TieInit ==
    /\ height = 0
    /\ tip = GENESIS_HASH
    /\ tx_count = 0
    /\ db = InitDb(FALSE)
    /\ kv = InitKv(FALSE)
    /\ op_stack = <<>>
    /\ staging = EmptyStaging
    /\ touched_hashXs = {}
    /\ daemon_height = MaxTieHeight
    /\ caught_up = TRUE
    /\ pc = "idle"
    /\ snap = <<>>
    /\ saved = <<>>
    /\ run = [adv |-> 0, bk |-> 0]
    /\ daemon_chain = <<>>
    /\ pf = None /\ bp = None /\ mp = None /\ state_lock = None
    /\ exec = None /\ reader = None /\ top = None

TieAdvance == \E tx \in TieTxs : AdvanceBlock(ClaimBlock(tx))

TieNext ==
    \/ TieAdvance /\ UNCHANGED schedVars
    \/ Flush /\ UNCHANGED schedVars

SpecTie == TieInit /\ [][TieNext]_vars

====
